-------------------------- MODULE Spec2Model --------------------------
(***************************************************************************)
(* Career-mentor: the psychometric trait-scoring engine                    *)
(* (src/psychometric_assessment.py), the Streamlit session that drives it  *)
(* (src/app.py) and the command-line application that drives it and        *)
(* persists it (src/main.py).                                              *)
(*                                                                         *)
(* Python values are modelled as follows.                                  *)
(*   dict        a sequence of <<key, value>> pairs in insertion order     *)
(*               (Python dicts iterate in insertion order); {} is <<>>.    *)
(*   key         a key of `responses` is <<"int", n>> for the integer n    *)
(*               and <<"str", n>> for the string str(n): 1 and "1" are     *)
(*               different keys of a Python dict.                          *)
(*   tuple/list  an item of top_traits is <<"tuple", trait, score>> as     *)
(*               built by sorted(dict.items()) and <<"list", trait,        *)
(*               score>> after a trip through JSON.                        *)
(*   None        <<>> where a value <<v>> is expected.                     *)
(*   str         the texts of the CVAnalyzer are sequences of one-character *)
(*               strings; "" is <<>>.                                      *)
(*   float       match_score is the exact fraction <<numerator,            *)
(*               denominator>>; a value rounded to two decimals is the     *)
(*               integer number of hundredths.                             *)
(*   set/list    a keyword list built by list(set(...)) is the set: the    *)
(*               order of such a list is the hash order of the run.        *)
(***************************************************************************)
EXTENDS Integers, Sequences, FiniteSets

VARIABLES
    responses,            \* PsychometricAssessment.responses
    personality_profile,  \* PsychometricAssessment.personality_profile
    assessment_completed, \* st.session_state.assessment_completed (app.py)
    file,                 \* personality_profile.json: <<>> when absent, else <<text>>
    pc,                   \* where main.py waits for input: <<"menu">>, <<"question", index>> or <<"save">>
    input_answer,         \* conduct_assessment's local answer: the last input, stripped and lower-cased
    outcome,              \* what the last step did, as its caller or user sees it
    trait_scores,         \* the trait-score map handed to the style rules
    cv_text,              \* CVAnalyzer.cv_text, a sequence of characters
    job_listing_text,     \* CVAnalyzer.job_listing_text, a sequence of characters
    cv_keywords,          \* CVAnalyzer.cv_keywords
    job_keywords,         \* CVAnalyzer.job_keywords
    match_score,          \* CVAnalyzer.match_score
    suggestions,          \* CVAnalyzer.suggestions
    analysis,             \* what the last call on the CVAnalyzer returned
    synchronized,         \* whether the callers of the CVAnalyzer take turns, a whole session each
    threads,              \* each caller's position in its session, its locals and the result it got
    career_history,       \* the rows of the Supabase table career_history
    request,              \* the arguments of the last call of a function of app.py
    reply                 \* what that call returned

\* The callers of the CVAnalyzer.
callers == <<synchronized, threads>>

\* The history table and the last call of a function of app.py.
app == <<career_history, request, reply>>

\* The fields of the CVAnalyzer, the value its last call returned and its
\* callers; with them the state of app.py's functions, which the
\* psychometric engine leaves alone as well.
analyzer == <<cv_text, job_listing_text, cv_keywords, job_keywords, match_score,
              suggestions, analysis, callers, app>>

vars == <<responses, personality_profile, assessment_completed, file, pc,
          input_answer, outcome, trait_scores, analyzer>>

-----------------------------------------------------------------------------
(* Bounds of the model.                                                    *)

\* The respondent of the web session may pick any option for the first
\* FreeQuestions + 1 questions and repeats the previous pick afterwards.
FreeQuestions == 2

\* The respondent at the command line may type any input for the first
\* FreeInputs + 1 questions of a pass and repeats the accepted pick afterwards.
FreeInputs == 0

\* Answers are recorded, in any order and any number of times, for the first
\* MaxRecorded questions of the catalog.
MaxRecorded == 2

\* The largest score of a trait in the trait-score maps of SpecStyle.
MaxScore == 6

-----------------------------------------------------------------------------
(* The question catalog: _load_questions.  Only the id and the trait       *)
(* weights of each option take part in the computation.                    *)

\* The option keys: options=['a', 'b', 'c', 'd'] of the radio button and the
\* list conduct_assessment accepts.
Choices == {"a", "b", "c", "d"}

_load_questions ==
  <<
    [id |-> 1,
     traits |-> [a |-> <<<<"methodical", 2>>, <<"analytical", 1>>>>,
                 b |-> <<<<"collaborative", 2>>, <<"creative", 1>>>>,
                 c |-> <<<<"action-oriented", 2>>, <<"adaptable", 1>>>>,
                 d |-> <<<<"analytical", 2>>, <<"cautious", 1>>>>]],
    [id |-> 2,
     traits |-> [a |-> <<<<"leadership", 2>>, <<"assertive", 1>>>>,
                 b |-> <<<<"supportive", 2>>, <<"harmonious", 1>>>>,
                 c |-> <<<<"reliable", 2>>, <<"focused", 1>>>>,
                 d |-> <<<<"innovative", 2>>, <<"creative", 1>>>>]],
    [id |-> 3,
     traits |-> [a |-> <<<<"structured", 2>>, <<"organized", 1>>>>,
                 b |-> <<<<"dynamic", 2>>, <<"flexible", 1>>>>,
                 c |-> <<<<"collaborative", 2>>, <<"communicative", 1>>>>,
                 d |-> <<<<"independent", 2>>, <<"focused", 1>>>>]],
    [id |-> 4,
     traits |-> [a |-> <<<<"direct", 2>>, <<"resilient", 1>>>>,
                 b |-> <<<<"sensitive", 2>>, <<"empathetic", 1>>>>,
                 c |-> <<<<"detail-oriented", 2>>, <<"practical", 1>>>>,
                 d |-> <<<<"reflective", 2>>, <<"thoughtful", 1>>>>]],
    [id |-> 5,
     traits |-> [a |-> <<<<"concise", 2>>, <<"efficient", 1>>>>,
                 b |-> <<<<"thorough", 2>>, <<"comprehensive", 1>>>>,
                 c |-> <<<<"enthusiastic", 2>>, <<"energetic", 1>>>>,
                 d |-> <<<<"thoughtful", 2>>, <<"measured", 1>>>>]],
    [id |-> 6,
     traits |-> [a |-> <<<<"studious", 2>>, <<"methodical", 1>>>>,
                 b |-> <<<<"hands-on", 2>>, <<"practical", 1>>>>,
                 c |-> <<<<"collaborative", 2>>, <<"guided", 1>>>>,
                 d |-> <<<<"exploratory", 2>>, <<"curious", 1>>>>]],
    [id |-> 7,
     traits |-> [a |-> <<<<"goal-oriented", 2>>, <<"results-driven", 1>>>>,
                 b |-> <<<<"altruistic", 2>>, <<"impactful", 1>>>>,
                 c |-> <<<<"problem-solver", 2>>, <<"analytical", 1>>>>,
                 d |-> <<<<"creative", 2>>, <<"innovative", 1>>>>]],
    [id |-> 8,
     traits |-> [a |-> <<<<"organized", 2>>, <<"systematic", 1>>>>,
                 b |-> <<<<"support-seeking", 2>>, <<"collaborative", 1>>>>,
                 c |-> <<<<"balanced", 2>>, <<"self-aware", 1>>>>,
                 d |-> <<<<"resilient", 2>>, <<"determined", 1>>>>]],
    [id |-> 9,
     traits |-> [a |-> <<<<"intuitive", 2>>, <<"decisive", 1>>>>,
                 b |-> <<<<"informed", 2>>, <<"thorough", 1>>>>,
                 c |-> <<<<"collaborative", 2>>, <<"consensus-driven", 1>>>>,
                 d |-> <<<<"analytical", 2>>, <<"careful", 1>>>>]],
    [id |-> 10,
     traits |-> [a |-> <<<<"ambitious", 2>>, <<"growth-oriented", 1>>>>,
                 b |-> <<<<"specialized", 2>>, <<"expert", 1>>>>,
                 c |-> <<<<"leadership", 2>>, <<"relationship-focused", 1>>>>,
                 d |-> <<<<"exploratory", 2>>, <<"versatile", 1>>>>]],
    [id |-> 11,
     traits |-> [a |-> <<<<"assertive", 2>>, <<"direct", 1>>>>,
                 b |-> <<<<"diplomatic", 2>>, <<"collaborative", 1>>>>,
                 c |-> <<<<"analytical", 2>>, <<"thoughtful", 1>>>>,
                 d |-> <<<<"harmonious", 2>>, <<"peaceful", 1>>>>]],
    [id |-> 12,
     traits |-> [a |-> <<<<"analytical", 2>>, <<"careful", 1>>>>,
                 b |-> <<<<"bold", 2>>, <<"risk-taking", 1>>>>,
                 c |-> <<<<"cautious", 2>>, <<"risk-averse", 1>>>>,
                 d |-> <<<<"adaptable", 2>>, <<"flexible", 1>>>>]],
    [id |-> 13,
     traits |-> [a |-> <<<<"multitasking", 2>>, <<"versatile", 1>>>>,
                 b |-> <<<<"focused", 2>>, <<"dedicated", 1>>>>,
                 c |-> <<<<"balanced", 2>>, <<"sustainable", 1>>>>,
                 d |-> <<<<"deep-work", 2>>, <<"concentrated", 1>>>>]],
    [id |-> 14,
     traits |-> [a |-> <<<<"systematic", 2>>, <<"organized", 1>>>>,
                 b |-> <<<<"resilient", 2>>, <<"forward-looking", 1>>>>,
                 c |-> <<<<"collaborative", 2>>, <<"open", 1>>>>,
                 d |-> <<<<"reflective", 2>>, <<"thoughtful", 1>>>>]],
    [id |-> 15,
     traits |-> [a |-> <<<<"problem-solver", 2>>, <<"analytical", 1>>>>,
                 b |-> <<<<"collaborative", 2>>, <<"energetic", 1>>>>,
                 c |-> <<<<"goal-oriented", 2>>, <<"achievement-driven", 1>>>>,
                 d |-> <<<<"creative", 2>>, <<"exploratory", 1>>>>]],
    [id |-> 16,
     traits |-> [a |-> <<<<"structured", 2>>, <<"guided", 1>>>>,
                 b |-> <<<<"independent", 2>>, <<"self-directed", 1>>>>,
                 c |-> <<<<"collaborative", 2>>, <<"participative", 1>>>>,
                 d |-> <<<<"growth-oriented", 2>>, <<"ambitious", 1>>>>]],
    [id |-> 17,
     traits |-> [a |-> <<<<"reactive", 2>>, <<"responsive", 1>>>>,
                 b |-> <<<<"strategic", 2>>, <<"forward-thinking", 1>>>>,
                 c |-> <<<<"balanced", 2>>, <<"organised", 1>>>>,
                 d |-> <<<<"intuitive", 2>>, <<"passion-driven", 1>>>>]],
    [id |-> 18,
     traits |-> [a |-> <<<<"leadership", 2>>, <<"assertive", 1>>>>,
                 b |-> <<<<"observant", 2>>, <<"selective", 1>>>>,
                 c |-> <<<<"detail-oriented", 2>>, <<"thorough", 1>>>>,
                 d |-> <<<<"creative", 2>>, <<"collaborative", 1>>>>]],
    [id |-> 19,
     traits |-> [a |-> <<<<"confident", 2>>, <<"visible", 1>>>>,
                 b |-> <<<<"modest", 2>>, <<"humble", 1>>>>,
                 c |-> <<<<"achievement-driven", 2>>, <<"results-oriented", 1>>>>,
                 d |-> <<<<"altruistic", 2>>, <<"impact-focused", 1>>>>]],
    [id |-> 20,
     traits |-> [a |-> <<<<"cautious", 2>>, <<"informed", 1>>>>,
                 b |-> <<<<"decisive", 2>>, <<"practical", 1>>>>,
                 c |-> <<<<"collaborative", 2>>, <<"advisory", 1>>>>,
                 d |-> <<<<"intuitive", 2>>, <<"adaptable", 1>>>>]],
    [id |-> 21,
     traits |-> [a |-> <<<<"structured", 2>>, <<"boundary-setting", 1>>>>,
                 b |-> <<<<"flexible", 2>>, <<"self-aware", 1>>>>,
                 c |-> <<<<"intense", 2>>, <<"cyclical", 1>>>>,
                 d |-> <<<<"balanced", 2>>, <<"consistent", 1>>>>]],
    [id |-> 22,
     traits |-> [a |-> <<<<"growth-oriented", 2>>, <<"learning-focused", 1>>>>,
                 b |-> <<<<"values-driven", 2>>, <<"principled", 1>>>>,
                 c |-> <<<<"opportunistic", 2>>, <<"ambitious", 1>>>>,
                 d |-> <<<<"goal-oriented", 2>>, <<"achievement-focused", 1>>>>]],
    [id |-> 23,
     traits |-> [a |-> <<<<"deep", 2>>, <<"selective", 1>>>>,
                 b |-> <<<<"broad", 2>>, <<"exploratory", 1>>>>,
                 c |-> <<<<"specialized", 2>>, <<"focused", 1>>>>,
                 d |-> <<<<"organic", 2>>, <<"natural", 1>>>>]],
    [id |-> 24,
     traits |-> [a |-> <<<<"proactive", 2>>, <<"organised", 1>>>>,
                 b |-> <<<<"reliable", 2>>, <<"consistent", 1>>>>,
                 c |-> <<<<"pressure-driven", 2>>, <<"intense", 1>>>>,
                 d |-> <<<<"methodical", 2>>, <<"systematic", 1>>>>]],
    [id |-> 25,
     traits |-> [a |-> <<<<"growth-oriented", 2>>, <<"adaptable", 1>>>>,
                 b |-> <<<<"impact-focused", 2>>, <<"purpose-driven", 1>>>>,
                 c |-> <<<<"opportunistic", 2>>, <<"ambitious", 1>>>>,
                 d |-> <<<<"achievement-oriented", 2>>, <<"self-improving", 1>>>>]]
  >>

questions == _load_questions

-----------------------------------------------------------------------------
(* Python dict operations on the sequence-of-pairs representation.         *)

\* The position of key k in dict d, 0 when absent (a dict holds a key once).
DictFind(d, k) ==
    LET at == {i \in 1..Len(d) : d[i][1] = k}
    IN  IF at = {} THEN 0 ELSE CHOOSE i \in at : TRUE

\* k in d
DictHas(d, k) == DictFind(d, k) # 0

\* d.get(k, default)
DictGet(d, k, default) ==
    LET i == DictFind(d, k)
    IN  IF i = 0 THEN default ELSE d[i][2]

\* d[k] = v: an existing key keeps its position, a new key goes last.
DictSet(d, k, v) ==
    LET i == DictFind(d, k)
    IN  IF i = 0 THEN Append(d, <<k, v>>)
        ELSE [d EXCEPT ![i] = <<k, v>>]

DictKeys(d) == {d[i][1] : i \in 1..Len(d)}

\* Op applied to the value of x.  (TLC hands an operator its arguments
\* unevaluated; a loop of some length is run through Then so that each
\* part is evaluated before the next one starts.)
Then(x, Op(_)) == CHOOSE y \in {Op(v) : v \in {x}} : TRUE

IntKey(n) == <<"int", n>>
StrKey(n) == <<"str", n>>

-----------------------------------------------------------------------------
(* PsychometricAssessment: the pure part.                                  *)

\* Python's None where a string is expected (a missing answer).
None == "None"

\* The truth value Python gives a string or None.
Truthy(x) == x # None /\ x # ""

\* _determine_communication_style with the first comparison not strict.
CommunicationStyleNotStrict(traits) ==
    IF DictGet(traits, "concise", 0) >= DictGet(traits, "thorough", 0)
    THEN "direct and concise"
    ELSE IF DictGet(traits, "enthusiastic", 0) > 3
    THEN "enthusiastic and engaging"
    ELSE IF DictGet(traits, "thoughtful", 0) > 3
    THEN "thoughtful and measured"
    ELSE "detailed and thorough"

\* _determine_communication_style with the second and third rule exchanged.
CommunicationStyleReordered(traits) ==
    IF DictGet(traits, "concise", 0) > DictGet(traits, "thorough", 0)
    THEN "direct and concise"
    ELSE IF DictGet(traits, "thoughtful", 0) > 3
    THEN "thoughtful and measured"
    ELSE IF DictGet(traits, "enthusiastic", 0) > 3
    THEN "enthusiastic and engaging"
    ELSE "detailed and thorough"

\* _determine_communication_style with the second rule at 'enthusiastic > 1'.
CommunicationStyleLowThreshold(traits) ==
    IF DictGet(traits, "concise", 0) > DictGet(traits, "thorough", 0)
    THEN "direct and concise"
    ELSE IF DictGet(traits, "enthusiastic", 0) > 1
    THEN "enthusiastic and engaging"
    ELSE IF DictGet(traits, "thoughtful", 0) > 3
    THEN "thoughtful and measured"
    ELSE "detailed and thorough"

\* _determine_communication_style(traits)
_determine_communication_style(traits) ==
    IF DictGet(traits, "concise", 0) > DictGet(traits, "thorough", 0)
    THEN "direct and concise"
    ELSE IF DictGet(traits, "enthusiastic", 0) > 3
    THEN "enthusiastic and engaging"
    ELSE IF DictGet(traits, "thoughtful", 0) > 3
    THEN "thoughtful and measured"
    ELSE "detailed and thorough"

\* _determine_work_style with the collaborative threshold taken as > 3 like
\* the other two.
WorkStyleSameThreshold(traits) ==
    IF DictGet(traits, "collaborative", 0) > 3
    THEN "collaborative team player"
    ELSE IF DictGet(traits, "independent", 0) > 3
    THEN "independent and self-directed"
    ELSE IF DictGet(traits, "structured", 0) > 3
    THEN "structured and organized"
    ELSE "flexible and adaptable"

\* _determine_work_style(traits)
_determine_work_style(traits) ==
    IF DictGet(traits, "collaborative", 0) > 5
    THEN "collaborative team player"
    ELSE IF DictGet(traits, "independent", 0) > 3
    THEN "independent and self-directed"
    ELSE IF DictGet(traits, "structured", 0) > 3
    THEN "structured and organized"
    ELSE "flexible and adaptable"

\* _determine_motivation_style with thresholds that are not strict.
MotivationStyleNotStrict(traits) ==
    IF DictGet(traits, "goal-oriented", 0) >= 3
    THEN "results and achievement-driven"
    ELSE IF DictGet(traits, "creative", 0) >= 3
    THEN "innovation and creative expression"
    ELSE IF DictGet(traits, "problem-solver", 0) >= 3
    THEN "solving complex challenges"
    ELSE "making a positive impact"

\* _determine_motivation_style(traits)
_determine_motivation_style(traits) ==
    IF DictGet(traits, "goal-oriented", 0) > 3
    THEN "results and achievement-driven"
    ELSE IF DictGet(traits, "creative", 0) > 3
    THEN "innovation and creative expression"
    ELSE IF DictGet(traits, "problem-solver", 0) > 3
    THEN "solving complex challenges"
    ELSE "making a positive impact"

RECURSIVE AddTraitsOverwrite(_, _, _)
\* AddTraits with the slip trait_scores[trait] = score: the weight replaces
\* the running total.
AddTraitsOverwrite(scores, traits, n) ==
    IF n = 0 THEN scores
    ELSE DictSet(AddTraitsOverwrite(scores, traits, n - 1), traits[n][1], traits[n][2])

\* trait_scores[trait] = trait_scores.get(trait, 0) + score
AddScore(scores, trait, score) ==
    DictSet(scores, trait, DictGet(scores, trait, 0) + score)

RECURSIVE AddTraits(_, _, _)
\* for trait, score in traits.items(): ...
\* trait_scores after the first n items of the option's weights.
AddTraits(scores, traits, n) ==
    IF n = 0 THEN scores
    ELSE AddScore(AddTraits(scores, traits, n - 1), traits[n][1], traits[n][2])

\* The body of the loop over self.questions: the answer is looked up under
\* the question's integer id, and a missing or unknown answer adds nothing.
AccumulateQuestion(resp, scores, question) ==
    LET answer == DictGet(resp, IntKey(question.id), None)
    IN  IF Truthy(answer) /\ answer \in DOMAIN question.traits
        THEN AddTraits(scores, question.traits[answer], Len(question.traits[answer]))
        ELSE scores

RECURSIVE AccumulateRange(_, _, _, _)
\* The loop over self.questions for the questions lo..hi in catalog order,
\* starting from trait_scores = scores: the lower half of the range, then
\* the upper half.
AccumulateRange(resp, scores, lo, hi) ==
    IF lo > hi THEN scores
    ELSE IF lo = hi THEN AccumulateQuestion(resp, scores, questions[lo])
    ELSE Then(AccumulateRange(resp, scores, lo, (lo + hi) \div 2),
              LAMBDA lower : AccumulateRange(resp, lower, (lo + hi) \div 2 + 1, hi))

\* Accumulate with the slip of a missing trait_scores = {}: the loop adds to
\* the raw scores of the stored profile.
AccumulateOntoStored(resp) ==
    AccumulateRange(resp,
                    IF personality_profile = <<>> THEN <<>>
                    ELSE personality_profile.raw_scores,
                    1, Len(questions))

RECURSIVE AccumulateRecorded(_, _)
\* The loop as it would be over the first n items of self.responses, in the
\* order the answers were recorded.
AccumulateRecorded(resp, n) ==
    IF n = 0 THEN <<>>
    ELSE AccumulateQuestion(resp, AccumulateRecorded(resp, n - 1),
             questions[CHOOSE qi \in 1..Len(questions) :
                           IntKey(questions[qi].id) = resp[n][1]])

\* Accumulate as a loop over the responses instead of the catalog.
AccumulateInRecordedOrder(resp) == AccumulateRecorded(resp, Len(resp))

\* trait_scores = {} followed by the loop over all questions.
Accumulate(resp) == AccumulateRange(resp, <<>>, 1, Len(questions))

\* dict.items(): the pairs as tuples, in insertion order.
Items(d) == [i \in 1..Len(d) |-> <<"tuple", d[i][1], d[i][2]>>]

\* InsertDescending of a sort that is not stable: the item goes before the
\* items of equal score.
InsertDescendingUnstable(s, x) ==
    LET ahead == Cardinality({i \in 1..Len(s) : s[i][3] > x[3]})
    IN  SubSeq(s, 1, ahead) \o <<x>> \o SubSeq(s, ahead + 1, Len(s))

\* Where a stable sort by descending score puts item x, which followed the
\* items of the sorted sequence s in the input: after every item whose score
\* is at least its own.
InsertDescending(s, x) ==
    LET ahead == Cardinality({i \in 1..Len(s) : s[i][3] >= x[3]})
    IN  SubSeq(s, 1, ahead) \o <<x>> \o SubSeq(s, ahead + 1, Len(s))

RECURSIVE SortRange(_, _, _, _)
\* The stable sort of items lo..hi, taken in input order, into the sequence
\* sorted of the items before them: the lower half of the range, then the
\* upper half.
SortRange(sorted, items, lo, hi) ==
    IF lo > hi THEN sorted
    ELSE IF lo = hi THEN InsertDescending(sorted, items[lo])
    ELSE Then(SortRange(sorted, items, lo, (lo + hi) \div 2),
              LAMBDA lower : SortRange(lower, items, (lo + hi) \div 2 + 1, hi))

\* sorted(items, key=lambda x: x[1], reverse=True): Python's sort is stable,
\* also under reverse=True.
SortedDescending(items) == SortRange(<<>>, items, 1, Len(items))

\* s[:k]
Slice(s, k) == SubSeq(s, 1, IF Len(s) < k THEN Len(s) ELSE k)

\* The profile dict built from the accumulated trait scores.
BuildProfile(scores) ==
    [raw_scores |-> scores,
     top_traits |-> Slice(SortedDescending(Items(scores)), 5),
     communication_style |-> _determine_communication_style(scores),
     work_style |-> _determine_work_style(scores),
     motivation_style |-> _determine_motivation_style(scores)]

\* _calculate_personality_profile: the value it stores in personality_profile.
_calculate_personality_profile(resp) == BuildProfile(Accumulate(resp))

-----------------------------------------------------------------------------
(* The Streamlit session of app.py.  Every step is one run of the script   *)
(* up to its st.rerun().                                                   *)

\* The lookup without its break: the loop runs to the end and the last
\* unanswered question is the one it leaves in current_q_id.
LastUnanswered(resp) ==
    LET open == {qi \in 1..Len(questions) : ~DictHas(resp, IntKey(questions[qi].id))}
    IN  IF open = {} THEN <<>>
        ELSE <<questions[CHOOSE qi \in open : \A other \in open : other <= qi].id>>

RECURSIVE FirstUnanswered(_, _)
\* for q in questions: if q['id'] not in responses: current_q_id = q['id']; break
\* from question index qi on; <<>> is current_q_id = None.
FirstUnanswered(resp, qi) ==
    IF qi > Len(questions) THEN <<>>
    ELSE IF ~DictHas(resp, IntKey(questions[qi].id)) THEN <<questions[qi].id>>
    ELSE FirstUnanswered(resp, qi + 1)

\* A lookup that branches on the answers: one more question is passed over.
NextUnansweredBranching(resp) == FirstUnanswered(resp, Len(resp) + 2)

\* The current question of the page: the first unanswered one.
NextUnanswered(resp) == FirstUnanswered(resp, 1)

\* The catalog index of the question with id n.
IndexOf(n) == CHOOSE i \in 1..Len(questions) : questions[i].id = n

\* The options the respondent of the model picks from at question index qi.
Pickable(resp, qi) ==
    IF qi <= FreeQuestions + 1 THEN Choices
    ELSE {DictGet(resp, IntKey(questions[qi - 1].id), None)} \cap Choices

\* PsychometricAssessment.__init__
NewResponses == <<>>
NewProfile == <<>>

\* The sessions that share one CVAnalyzer.
Threads == {1, 2}

\* A caller that has not started: where it is in run_cv_analysis and
\* analyze_match, the locals of analyze_match, and the dict it was returned.
NewThread ==
    [at |-> "load_cv", job_keyword_set |-> {}, matching_keywords |-> {},
     missing_keywords |-> {}, generated |-> <<>>, returned |-> <<>>]

\* No row is stored and no function of app.py was called.
NewApp ==
    /\ career_history = <<>>
    /\ request = <<>>
    /\ reply = <<>>

\* One caller at a time, none of them started.
NoCallers ==
    /\ synchronized = TRUE
    /\ threads = [thread \in Threads |-> NewThread]

\* CVAnalyzer.__init__; no call has returned yet.
NewAnalyzer ==
    /\ cv_text = <<>>
    /\ job_listing_text = <<>>
    /\ cv_keywords = {}
    /\ job_keywords = {}
    /\ match_score = <<0, 1>>
    /\ suggestions = <<>>
    /\ analysis = <<>>
    /\ NoCallers
    /\ NewApp

\* "Next Question": responses[current_q_id] = selected_option
NextQuestion ==
    /\ ~assessment_completed
    /\ NextUnanswered(responses) # <<>>
    /\ LET current_q_id == NextUnanswered(responses)[1]
       IN  \E selected_option \in Pickable(responses, IndexOf(current_q_id)) :
               responses' = DictSet(responses, IntKey(current_q_id), selected_option)
    /\ outcome' = "recorded"
    /\ UNCHANGED <<personality_profile, assessment_completed, file, pc, input_answer, trait_scores>>
    /\ UNCHANGED analyzer

\* The flag set without the profile calculation.
CompleteWithoutProfile ==
    /\ ~assessment_completed
    /\ NextUnanswered(responses) = <<>>
    /\ assessment_completed' = TRUE
    /\ outcome' = "completed"
    /\ UNCHANGED <<responses, personality_profile, file, pc, input_answer, trait_scores>>
    /\ UNCHANGED analyzer

\* No question is left: the profile is calculated and the flag is set.
CompleteAssessment ==
    /\ ~assessment_completed
    /\ NextUnanswered(responses) = <<>>
    /\ personality_profile' = _calculate_personality_profile(responses)
    /\ assessment_completed' = TRUE
    /\ outcome' = "completed"
    /\ UNCHANGED <<responses, file, pc, input_answer, trait_scores>>
    /\ UNCHANGED analyzer

\* "Retake Assessment" that only clears the flag: the engine is kept.
RetakeSameEngine ==
    /\ assessment_completed
    /\ assessment_completed' = FALSE
    /\ outcome' = "fresh"
    /\ UNCHANGED <<responses, personality_profile, file, pc, input_answer, trait_scores>>
    /\ UNCHANGED analyzer

\* "Retake Assessment": a fresh PsychometricAssessment replaces the engine.
RetakeAssessment ==
    /\ assessment_completed
    /\ responses' = NewResponses
    /\ personality_profile' = NewProfile
    /\ assessment_completed' = FALSE
    /\ outcome' = "fresh"
    /\ UNCHANGED <<file, pc, input_answer, trait_scores>>
    /\ UNCHANGED analyzer

\* A call of _calculate_personality_profile in whatever state the engine is
\* in: the method has no precondition.
Finalize ==
    /\ personality_profile' = _calculate_personality_profile(responses)
    /\ outcome' = "finalized"
    /\ UNCHANGED <<responses, assessment_completed, file, pc, input_answer, trait_scores>>
    /\ UNCHANGED analyzer

Init ==
    /\ responses = NewResponses
    /\ personality_profile = NewProfile
    /\ assessment_completed = FALSE
    /\ file = <<>>
    /\ pc = <<"menu">>
    /\ input_answer = None
    /\ outcome = "fresh"
    /\ trait_scores = <<>>
    /\ NewAnalyzer

Next ==
    \/ NextQuestion
    \/ CompleteAssessment
    \/ RetakeAssessment
    \/ Finalize

Spec == Init /\ [][Next]_vars

-----------------------------------------------------------------------------
(* Properties of the profile calculation.                                  *)

\* Every trait name of the catalog.
AllTraits ==
    UNION {DictKeys(questions[qi].traits[c]) : qi \in 1..Len(questions), c \in Choices}

\* The states right after a profile calculation.
Calculated == outcome \in {"finalized", "completed"}

\* The option recorded for the question at index qi, None when it has none.
Chosen(resp) ==
    [qi \in 1..Len(questions) |->
        IF DictHas(resp, IntKey(questions[qi].id))
        THEN DictGet(resp, IntKey(questions[qi].id), None)
        ELSE None]

RECURSIVE SumOfWeights(_, _, _, _)
\* The sum of trait t's weights in the chosen options of questions lo..hi.
SumOfWeights(chosen, t, lo, hi) ==
    IF lo > hi THEN 0
    ELSE IF lo = hi
    THEN (IF chosen[lo] \in Choices
          THEN DictGet(questions[lo].traits[chosen[lo]], t, 0)
          ELSE 0)
    ELSE SumOfWeights(chosen, t, lo, (lo + hi) \div 2)
         + SumOfWeights(chosen, t, (lo + hi) \div 2 + 1, hi)

\* The sums of the trait_weights['a'] entries of the 25 questions, trait by
\* trait, taken from the literals of _load_questions (lines 19-422).
AllAnsweredA ==
    {<<"adaptable", 1>>, <<"ambitious", 2>>, <<"analytical", 4>>,
     <<"assertive", 4>>, <<"boundary-setting", 1>>, <<"careful", 1>>,
     <<"cautious", 2>>, <<"concise", 2>>, <<"confident", 2>>,
     <<"decisive", 1>>, <<"deep", 2>>, <<"direct", 3>>, <<"efficient", 1>>,
     <<"goal-oriented", 2>>, <<"growth-oriented", 5>>, <<"guided", 1>>,
     <<"informed", 1>>, <<"intuitive", 2>>, <<"leadership", 4>>,
     <<"learning-focused", 1>>, <<"methodical", 3>>, <<"multitasking", 2>>,
     <<"organised", 1>>, <<"organized", 4>>, <<"proactive", 2>>,
     <<"problem-solver", 2>>, <<"reactive", 2>>, <<"resilient", 1>>,
     <<"responsive", 1>>, <<"results-driven", 1>>, <<"selective", 1>>,
     <<"structured", 6>>, <<"studious", 2>>, <<"systematic", 3>>,
     <<"versatile", 1>>, <<"visible", 1>>}

\* C1: after finalize, each trait's raw score is the sum, over exactly the
\* answered questions, of the trait's weight in the chosen option; a trait
\* that got no weight has no entry; an unanswered question adds nothing; and
\* with every question answered 'a' the raw scores are the sums of the 'a'
\* weights.
C1_RawScoresAreSums ==
    Calculated =>
        LET raw == personality_profile.raw_scores
            chosen == Chosen(responses)
        IN  /\ \A t \in AllTraits :
                   DictGet(raw, t, 0) = SumOfWeights(chosen, t, 1, Len(questions))
            /\ DictKeys(raw) \subseteq AllTraits
            /\ Cardinality(DictKeys(raw)) = Len(raw)
            /\ \A i \in 1..Len(raw) : raw[i][2] > 0
            /\ (\A qi \in 1..Len(questions) : chosen[qi] = "a")
                   => {<<raw[i][1], raw[i][2]>> : i \in 1..Len(raw)} = AllAnsweredA

\* A profile calculated from a partial ResponseSet with a pick other than 'a'.
C1_Witness ==
    /\ outcome = "finalized"
    /\ Len(responses) \in 2..(Len(questions) - 1)
    /\ DictGet(responses, IntKey(1), None) = "b"
    /\ Len(personality_profile.raw_scores) > 2

\* Where trait t first appears while the catalog is scanned in order and
\* only the chosen options are read: 10 * question index + place in the
\* option's weights (an option names at most 9 traits); 0 when it never does.
FirstIntroduced(chosen, t) ==
    LET hits == {qi \in 1..Len(questions) :
                    /\ chosen[qi] \in Choices
                    /\ DictHas(questions[qi].traits[chosen[qi]], t)}
    IN  IF hits = {} THEN 0
        ELSE LET qi == CHOOSE q \in hits : \A r \in hits : q <= r
             IN  10 * qi + DictFind(questions[qi].traits[chosen[qi]], t)

\* Item x of top_traits comes before item y in the order of the claim:
\* the higher score first, and of equal scores the trait introduced first.
Before(chosen, x, y) ==
    \/ x[3] > y[3]
    \/ x[3] = y[3] /\ FirstIntroduced(chosen, x[2]) < FirstIntroduced(chosen, y[2])

\* C5: top_traits holds min(5, number of scored traits) of the trait-score
\* pairs, in descending score with traits of equal score in the order they
\* were first introduced while scanning the catalog, and every pair left out
\* comes after every pair kept in that order (none left out scores higher).
C5_TopTraitsOrder ==
    Calculated =>
        LET raw == personality_profile.raw_scores
            top == personality_profile.top_traits
            chosen == Chosen(responses)
            pairs == {<<"tuple", raw[i][1], raw[i][2]>> : i \in 1..Len(raw)}
            kept == {top[i] : i \in 1..Len(top)}
        IN  /\ Len(top) = (IF Len(raw) < 5 THEN Len(raw) ELSE 5)
            /\ kept \subseteq pairs
            /\ Cardinality(kept) = Len(top)
            /\ \A i \in 1..Len(top) : \A j \in (i + 1)..Len(top) :
                   Before(chosen, top[i], top[j])
            /\ \A x \in kept : \A y \in pairs \ kept :
                   /\ Before(chosen, x, y)
                   /\ y[3] <= x[3]

\* A profile with more than five scored traits whose fifth and sixth best
\* have the same score, so that the tie decides who is kept.
C5_Witness ==
    /\ Calculated
    /\ Len(personality_profile.raw_scores) > 5
    /\ \E i \in 1..Len(personality_profile.raw_scores) :
           /\ <<"tuple", personality_profile.raw_scores[i][1],
                personality_profile.raw_scores[i][2]>>
                  \notin {personality_profile.top_traits[k] : k \in 1..5}
           /\ personality_profile.raw_scores[i][2] = personality_profile.top_traits[5][3]

\* C6: the next-unanswered lookup returns the first question in catalog
\* order whose id is not a key of the ResponseSet, and nothing exactly when
\* every catalog question id is a key.
C6_LookupIsFirstUnanswered ==
    LET open == {qi \in 1..Len(questions) :
                    IntKey(questions[qi].id) \notin DictKeys(responses)}
        found == NextUnanswered(responses)
    IN  /\ (found = <<>>) <=> (open = {})
        /\ open # {} =>
               /\ Len(found) = 1
               /\ \E qi \in open :
                      /\ found[1] = questions[qi].id
                      /\ \A other \in open : qi <= other

\* A session with questions 1..12 answered: the lookup has 13 questions to
\* choose from and must return question 13.
C6_Witness ==
    /\ Len(responses) = 12
    /\ NextUnanswered(responses) = <<13>>

\* C10: finalize with no question answered gives no raw score at all (no
\* trait scores above 0), an empty top_traits and the default label of each
\* style.
C10_EmptyProfileDefaults ==
    (outcome = "finalized" /\ responses = <<>>) =>
        /\ personality_profile.raw_scores = <<>>
        /\ \A t \in AllTraits : DictGet(personality_profile.raw_scores, t, 0) = 0
        /\ personality_profile.top_traits = <<>>
        /\ personality_profile.communication_style = "detailed and thorough"
        /\ personality_profile.work_style = "flexible and adaptable"
        /\ personality_profile.motivation_style = "making a positive impact"

\* finalize was called on a fresh engine.
C10_Witness ==
    /\ outcome = "finalized"
    /\ responses = <<>>
    /\ personality_profile # NewProfile

\* C11: calling finalize twice on the same engine with no answer recorded in
\* between yields identical profiles: a finalize that follows a profile
\* calculation leaves the stored profile (raw_scores, top_traits in order and
\* the three labels) as it is.
C11_FinalizeIdempotent ==
    [][(Calculated /\ outcome' = "finalized" /\ responses' = responses)
           => personality_profile' = personality_profile]_vars

\* finalize was called on a completed session, whose profile had just been
\* calculated from the same 25 answers.
C11_Witness ==
    /\ outcome = "finalized"
    /\ assessment_completed
    /\ Len(responses) = Len(questions)
    /\ Len(personality_profile.top_traits) = 5

\* C12: constructing a fresh engine ("Retake Assessment") gives an empty
\* ResponseSet and an empty profile whatever the earlier engine held, and the
\* next question presented is the first catalog question; no other operation
\* removes a recorded answer: every answer stays as recorded.
C12_FreshEngineDiscardsAll ==
    [][/\ outcome' = "fresh" =>
              /\ responses' = <<>>
              /\ personality_profile' = <<>>
              /\ ~assessment_completed'
              /\ NextUnanswered(responses') = <<questions[1].id>>
       /\ outcome' # "fresh" =>
              \A i \in 1..Len(responses) :
                  DictGet(responses', responses[i][1], None) = responses[i][2]]_vars

\* A completed engine with 25 answers and a profile, right where "Retake
\* Assessment" is offered and replaces it.
C12_Witness ==
    /\ assessment_completed
    /\ Len(responses) = Len(questions)
    /\ personality_profile # NewProfile
    /\ ENABLED RetakeAssessment

\* C13: in every state reached from a fresh engine by answering the question
\* presented, the answered ids are the first k ids of the catalog (k = 0..25)
\* and the question presented next is the one after them, whatever options
\* were chosen.
C13_SequentialTraversal ==
    LET k == Len(responses)
    IN  /\ k <= Len(questions)
        /\ \A i \in 1..k : responses[i][1] = IntKey(questions[i].id)
        /\ NextUnanswered(responses) =
               (IF k < Len(questions) THEN <<questions[k + 1].id>> ELSE <<>>)

\* Seven questions answered with different options, question 8 presented.
C13_Witness ==
    /\ Len(responses) = 7
    /\ responses[1][2] = "a"
    /\ responses[2][2] = "d"
    /\ NextUnanswered(responses) = <<8>>

-----------------------------------------------------------------------------
(* The style rules on trait-score maps of any content: SpecStyle hands     *)
(* BuildProfile a map over the traits one rule reads, each trait either    *)
(* missing or scored 1..MaxScore (a trait-score map never holds a 0: the   *)
(* weights are positive).                                                  *)

CommunicationTraits == <<"concise", "thorough", "enthusiastic", "thoughtful">>
WorkTraits == <<"collaborative", "independent", "structured">>
MotivationTraits == <<"goal-oriented", "creative", "problem-solver">>

RECURSIVE MapOf(_, _, _)
\* The dict that gives names[i] the score v[i], for the i <= n with v[i] > 0.
MapOf(names, v, n) ==
    IF n = 0 THEN <<>>
    ELSE IF v[n] > 0 THEN Append(MapOf(names, v, n - 1), <<names[n], v[n]>>)
    ELSE MapOf(names, v, n - 1)

TraitMaps(names) ==
    {MapOf(names, v, Len(names)) : v \in [1..Len(names) -> 0..MaxScore]}

InitStyle ==
    /\ responses = NewResponses
    /\ personality_profile = NewProfile
    /\ assessment_completed = FALSE
    /\ file = <<>>
    /\ pc = <<"menu">>
    /\ input_answer = None
    /\ outcome = "fresh"
    /\ trait_scores \in TraitMaps(CommunicationTraits) \cup TraitMaps(WorkTraits)
                        \cup TraitMaps(MotivationTraits)
    /\ NewAnalyzer

\* Lines 461-467 of _calculate_personality_profile on the given map.
DeriveStyles ==
    /\ outcome = "fresh"
    /\ personality_profile' = BuildProfile(trait_scores)
    /\ outcome' = "built"
    /\ UNCHANGED <<responses, assessment_completed, file, pc, input_answer, trait_scores>>
    /\ UNCHANGED analyzer

NextStyle == DeriveStyles

SpecStyle == InitStyle /\ [][NextStyle]_vars

\* The score the rules read for trait t: a missing trait counts as 0.
Score(t) == IF DictHas(trait_scores, t) THEN DictGet(trait_scores, t, 0) ELSE 0

\* C2: communication_style is 'direct and concise' if concise > thorough,
\* otherwise 'enthusiastic and engaging' if enthusiastic > 3, otherwise
\* 'thoughtful and measured' if thoughtful > 3, otherwise 'detailed and
\* thorough', a missing trait counting as 0.
C2_CommunicationStyle ==
    outcome = "built" =>
        LET label == personality_profile.communication_style
            first == Score("concise") > Score("thorough")
            second == Score("enthusiastic") > 3
            third == Score("thoughtful") > 3
        IN  /\ (label = "direct and concise") <=> first
            /\ (label = "enthusiastic and engaging") <=> (~first /\ second)
            /\ (label = "thoughtful and measured") <=> (~first /\ ~second /\ third)
            /\ (label = "detailed and thorough") <=> (~first /\ ~second /\ ~third)

\* Both later rules would fire and the second one wins; concise is missing.
C2_Witness ==
    /\ outcome = "built"
    /\ ~DictHas(trait_scores, "concise")
    /\ Score("thorough") = 1
    /\ Score("enthusiastic") = 4
    /\ Score("thoughtful") = 4
    /\ personality_profile.communication_style = "enthusiastic and engaging"

\* C3: work_style is 'collaborative team player' if collaborative > 5,
\* otherwise 'independent and self-directed' if independent > 3, otherwise
\* 'structured and organized' if structured > 3, otherwise 'flexible and
\* adaptable'; the thresholds are strict.
C3_WorkStyle ==
    outcome = "built" =>
        LET label == personality_profile.work_style
            first == Score("collaborative") > 5
            second == Score("independent") > 3
            third == Score("structured") > 3
        IN  /\ (label = "collaborative team player") <=> first
            /\ (label = "independent and self-directed") <=> (~first /\ second)
            /\ (label = "structured and organized") <=> (~first /\ ~second /\ third)
            /\ (label = "flexible and adaptable") <=> (~first /\ ~second /\ ~third)

\* collaborative sits exactly on its threshold, so the next rule decides.
C3_Witness ==
    /\ outcome = "built"
    /\ Score("collaborative") = 5
    /\ Score("independent") = 3
    /\ Score("structured") = 4
    /\ personality_profile.work_style = "structured and organized"

\* C4: motivation_style is 'results and achievement-driven' if goal-oriented
\* > 3, otherwise 'innovation and creative expression' if creative > 3,
\* otherwise 'solving complex challenges' if problem-solver > 3, otherwise
\* 'making a positive impact'; the thresholds are strict.
C4_MotivationStyle ==
    outcome = "built" =>
        LET label == personality_profile.motivation_style
            first == Score("goal-oriented") > 3
            second == Score("creative") > 3
            third == Score("problem-solver") > 3
        IN  /\ (label = "results and achievement-driven") <=> first
            /\ (label = "innovation and creative expression") <=> (~first /\ second)
            /\ (label = "solving complex challenges") <=> (~first /\ ~second /\ third)
            /\ (label = "making a positive impact") <=> (~first /\ ~second /\ ~third)

\* goal-oriented sits exactly on its threshold and the last rule fires.
C4_Witness ==
    /\ outcome = "built"
    /\ Score("goal-oriented") = 3
    /\ Score("creative") = 3
    /\ Score("problem-solver") = 4
    /\ personality_profile.motivation_style = "solving complex challenges"

-----------------------------------------------------------------------------
(* The command-line application of main.py: one PsychometricAssessment     *)
(* for the whole run, the assessment asked question by question, and the   *)
(* profile saved to and loaded from personality_profile.json.  Every step  *)
(* runs from one input() to the next.                                      *)

\* What the respondent of the model may type at a question's prompt.
ValidInputs == {"a", "B "}
InvalidInputs == {"e", ""}

\* input(...).strip().lower() on the inputs of the model.
StripLower(raw) ==
    CASE raw = "a" -> "a"
      [] raw = "B " -> "b"
      [] raw = "e" -> "e"
      [] raw = "" -> ""

\* What is typed at the question with index qi: anything at the first
\* FreeInputs + 1 questions of a pass, afterwards a rejected input or the
\* pick just accepted.
Typed(resp, qi) ==
    InvalidInputs \cup
    (IF qi <= FreeInputs + 1 THEN ValidInputs
     ELSE {raw \in ValidInputs :
              StripLower(raw) = DictGet(resp, IntKey(questions[qi - 1].id), None)})

\* if answer: the check skipped, any non-empty input passes.
AcceptsNonEmpty(ans) == Truthy(ans)

\* if answer in ['a', 'b', 'c', 'd']
Accepts(ans) == ans \in Choices

\* json.dump of the responses dict: every key becomes a string, and the
\* members are written in dict order even when two keys give the same string.
DumpResponses(resp) ==
    [i \in 1..Len(resp) |-> <<StrKey(resp[i][1][2]), resp[i][2]>>]

\* json.dump of the profile dict: the tuples of top_traits become lists.
DumpProfile(profile) ==
    IF profile = <<>> THEN <<>>
    ELSE [profile EXCEPT !.top_traits =
              [i \in 1..Len(profile.top_traits) |->
                  <<"list", profile.top_traits[i][2], profile.top_traits[i][3]>>]]

RECURSIVE LoadMembers(_, _, _, _)
\* json.load of the members lo..hi of an object, in the order of the text,
\* into the dict d of the members before them: a repeated name keeps its
\* first place and takes the last value.
LoadMembers(d, members, lo, hi) ==
    IF lo > hi THEN d
    ELSE IF lo = hi THEN DictSet(d, members[lo][1], members[lo][2])
    ELSE Then(LoadMembers(d, members, lo, (lo + hi) \div 2),
              LAMBDA lower : LoadMembers(lower, members, (lo + hi) \div 2 + 1, hi))

\* json.load of an object.
LoadObject(members) == LoadMembers(<<>>, members, 1, Len(members))

\* save_profile: the text written to personality_profile.json.
save_profile(profile, resp) ==
    [personality_profile |-> DumpProfile(profile),
     responses |-> DumpResponses(resp)]

\* load_profile: the engine's responses after reading the text.
LoadedResponses(text) == LoadObject(text.responses)

\* load_profile, os.path.exists(filename) being true.
load_profile ==
    /\ file # <<>>
    /\ personality_profile' = file[1].personality_profile
    /\ responses' = LoadedResponses(file[1])
    /\ outcome' = "loaded"

\* Menu 1 with a saved profile and 'y': the profile is loaded and shown.
RunAssessmentLoad ==
    /\ pc = <<"menu">>
    /\ load_profile
    /\ UNCHANGED <<assessment_completed, file, pc, input_answer, trait_scores>>
    /\ UNCHANGED analyzer

\* Menu 1 otherwise: conduct_assessment starts and asks its first question.
RunAssessmentConduct ==
    /\ pc = <<"menu">>
    /\ pc' = <<"question", 1>>
    /\ outcome' = "asking"
    /\ UNCHANGED <<responses, personality_profile, assessment_completed, file,
                   input_answer, trait_scores>>
    /\ UNCHANGED analyzer

\* conduct_assessment reads one input at the prompt of a question: an
\* accepted answer is recorded and the loop moves on (after the last
\* question the profile is calculated and main.py asks whether to save);
\* anything else prints "Please enter a, b, c, or d." and asks again.
ConductInput ==
    /\ pc[1] = "question"
    /\ \E raw \in Typed(responses, pc[2]) :
           LET question == questions[pc[2]]
               typed == StripLower(raw)
               recorded == DictSet(responses, IntKey(question.id), typed)
           IN  /\ input_answer' = typed
               /\ IF Accepts(typed)
                  THEN /\ responses' = recorded
                       /\ IF pc[2] < Len(questions)
                          THEN /\ pc' = <<"question", pc[2] + 1>>
                               /\ outcome' = "recorded"
                               /\ UNCHANGED personality_profile
                          ELSE /\ pc' = <<"save">>
                               /\ outcome' = "completed"
                               /\ personality_profile' =
                                      _calculate_personality_profile(recorded)
                  ELSE /\ outcome' = "reprompt"
                       /\ UNCHANGED <<responses, personality_profile, pc>>
    /\ UNCHANGED <<assessment_completed, file, trait_scores>>
    /\ UNCHANGED analyzer

\* "Save this profile? (y/n)": save_profile on 'y'.
SavePrompt ==
    /\ pc = <<"save">>
    /\ \E save \in {"y", "n"} :
           IF save = "y"
           THEN /\ file' = <<save_profile(personality_profile, responses)>>
                /\ outcome' = "saved"
           ELSE /\ outcome' = "not saved"
                /\ UNCHANGED file
    /\ pc' = <<"menu">>
    /\ UNCHANGED <<responses, personality_profile, assessment_completed, input_answer,
                   trait_scores>>
    /\ UNCHANGED analyzer

\* Menu 4 with a saved profile: load_profile, then the results are shown.
ViewProfile ==
    /\ pc = <<"menu">>
    /\ load_profile
    /\ UNCHANGED <<assessment_completed, file, pc, input_answer, trait_scores>>
    /\ UNCHANGED analyzer

NextCLI ==
    \/ RunAssessmentLoad
    \/ RunAssessmentConduct
    \/ ConductInput
    \/ SavePrompt
    \/ ViewProfile

SpecCLI == Init /\ [][NextCLI]_vars

-----------------------------------------------------------------------------
(* Properties of recording, saving and loading.                            *)

\* The ids of the questions with a valid recorded answer.
Recorded(resp) ==
    {questions[qi].id : qi \in {i \in 1..Len(questions) :
        DictGet(resp, IntKey(questions[i].id), None) \in Choices}}

\* C7: once an answer has been recorded for a question, no later
\* next-unanswered lookup on the same engine returns that question, whatever
\* operations follow, until a fresh engine is constructed.
C7_AnsweredNeverAskedAgain ==
    [][\A id \in Recorded(responses) :
           outcome' # "fresh" => NextUnanswered(responses') # <<id>>]_vars

\* An input step of conduct_assessment that read an answer outside a-d.
InvalidInputStep == pc[1] = "question" /\ ~(input_answer' \in Choices)

\* C8, as stated: recording an invalid choice fails with InvalidChoice (an
\* unknown question id with UnknownQuestion), the ResponseSet and the
\* stored profile being as before the call.
C8_RejectedWithTypedFailure ==
    [][InvalidInputStep =>
           /\ outcome' \in {"InvalidChoice", "UnknownQuestion"}
           /\ responses' = responses
           /\ personality_profile' = personality_profile]_vars

\* C8, amended: an input that is not one of a, b, c, d after strip and lower
\* is not recorded; conduct_assessment asks the same question again (no
\* failure reaches its caller), with the ResponseSet and the stored profile
\* exactly as before.  Question ids are never read from input: every
\* integer key of the ResponseSet is a catalog id and holds one of a-d.
C8_RejectedInputChangesNothing ==
    /\ [][InvalidInputStep =>
              /\ outcome' = "reprompt"
              /\ pc' = pc
              /\ responses' = responses
              /\ personality_profile' = personality_profile]_vars
    /\ [](\A i \in 1..Len(responses) :
              responses[i][1][1] = "int" =>
                  /\ \E qi \in 1..Len(questions) : questions[qi].id = responses[i][1][2]
                  /\ responses[i][2] \in Choices)

\* An input was rejected in the middle of a pass, with answers and a
\* profile of an earlier pass in store.
C8_Witness ==
    /\ outcome = "reprompt"
    /\ pc = <<"question", 3>>
    /\ input_answer = "e"
    /\ personality_profile # NewProfile
    /\ DictGet(responses, IntKey(1), None) = "b"

\* C9: saving the engine's state and loading it reproduces the ResponseSet,
\* the same question-id keys with the same choices, and finalizing the
\* loaded engine gives the profile that finalizing gave before the save.
C9_SaveLoadRoundTrip ==
    [][(/\ outcome' = "loaded"
        /\ file = <<save_profile(personality_profile, responses)>>)
           => /\ responses' = responses
              /\ _calculate_personality_profile(responses')
                     = _calculate_personality_profile(responses)]_vars

-----------------------------------------------------------------------------
(* The keyword matcher of src/cv_analyzer.py: analyze_match and            *)
(* _generate_suggestions on the keyword lists the analyzer holds.  A       *)
(* suggestion is <<text, keywords>>: the literal text and the keywords an  *)
(* f-string joins into it with ', '.                                       *)

\* The psychometric engine, its session and its file: untouched by the
\* CVAnalyzer.
engine == <<responses, personality_profile, assessment_completed, file, pc,
            input_answer, outcome, trait_scores>>

\* The largest job keyword set of SpecMatch's keyword families, and the
\* number of keywords a CV may hold beyond those of the job.
MaxJob == 6
MaxExtra == 1

LowMatch ==
    "Your CV has a low match score. Consider highlighting more relevant skills and experiences."
ModerateMatch ==
    "Your CV has a moderate match. There's room for improvement to better align with the job requirements."
GoodMatch ==
    "Your CV has a good match. A few enhancements could make it even stronger."
StrongMatch ==
    "Your CV has a strong match with the job listing. Great alignment!"
MissingMessage ==
    "Consider adding or emphasizing these keywords from the job listing: "
MissingInput == "Please load both CV and job listing first"

\* The structure and format suggestions, in the order they are appended.
FixedSuggestions ==
    <<"Ensure your CV clearly highlights your most relevant experiences at the top.",
      "Use action verbs and quantify achievements where possible (e.g., 'Increased sales by 25%').",
      "Tailor your CV summary/objective to match the job description's key requirements.",
      "Make sure your CV is well-formatted, easy to read, and free of typos.",
      "Include a skills section that matches the job requirements.">>

\* A suggestion that is a plain literal.
Literal(text) == <<text, <<>>>>

\* self.match_score < bound, on the fraction.
ScoreBelow(score, bound) == score[1] < bound * score[2]

\* round(score, 2), in hundredths: the nearest hundredth, a tie going to the
\* even one.  (A double differs from the fraction by less than 1e-13, which
\* moves no score of the model across a hundredth or a band limit.)
Round2(score) ==
    LET q == (100 * score[1]) \div score[2]
        r == (100 * score[1]) % score[2]
    IN  IF 2 * r < score[2] THEN q
        ELSE IF 2 * r > score[2] THEN q + 1
        ELSE IF q % 2 = 0 THEN q ELSE q + 1

\* cv_keyword_set - job_keyword_set: the difference taken the wrong way round.
MissingFromJob(cv_keyword_set, job_keyword_set) == cv_keyword_set \ job_keyword_set

\* Every CV keyword taken as matching: the intersection is left out.
MatchingAllOfCV(cv_keyword_set, job_keyword_set) == cv_keyword_set

\* cv_keyword_set.intersection(job_keyword_set)
MatchingKeywords(cv_keyword_set, job_keyword_set) == cv_keyword_set \cap job_keyword_set

\* job_keyword_set - cv_keyword_set
MissingKeywords(cv_keyword_set, job_keyword_set) == job_keyword_set \ cv_keyword_set

\* The score left as a fraction of 1: the factor 100 is missing.
MatchScoreFraction(matching_keywords, job_keyword_set) ==
    IF Cardinality(job_keyword_set) > 0
    THEN <<Cardinality(matching_keywords), Cardinality(job_keyword_set)>>
    ELSE <<0, 1>>

\* (len(matching_keywords) / len(job_keyword_set)) * 100, or 0 for an empty
\* job set.
MatchScore(matching_keywords, job_keyword_set) ==
    IF Cardinality(job_keyword_set) > 0
    THEN <<100 * Cardinality(matching_keywords), Cardinality(job_keyword_set)>>
    ELSE <<0, 1>>

\* The score bands with <= in place of <.
BandMessageInclusive(score) ==
    IF score[1] <= 30 * score[2] THEN LowMatch
    ELSE IF score[1] <= 50 * score[2] THEN ModerateMatch
    ELSE IF score[1] <= 70 * score[2] THEN GoodMatch
    ELSE StrongMatch

\* The score-based suggestion.
BandMessage(score) ==
    IF ScoreBelow(score, 30) THEN LowMatch
    ELSE IF ScoreBelow(score, 50) THEN ModerateMatch
    ELSE IF ScoreBelow(score, 70) THEN GoodMatch
    ELSE StrongMatch

RECURSIVE Smallest(_, _)
\* The k smallest numbers of set, ascending.
Smallest(set, k) ==
    IF k = 0 \/ set = {} THEN <<>>
    ELSE LET least == CHOOSE x \in set : \A y \in set : x <= y
         IN  <<least>> \o Smallest(set \ {least}, k - 1)

RECURSIVE Largest(_, _)
\* The k largest numbers of set, descending.
Largest(set, k) ==
    IF k = 0 \/ set = {} THEN <<>>
    ELSE LET most == CHOOSE x \in set : \A y \in set : y <= x
         IN  <<most>> \o Largest(set \ {most}, k - 1)

\* list(set)[:k]: the first k elements in the iteration order of the set,
\* which is the hash order of the run: any k distinct elements in any order
\* (all of them when the set has fewer).  For a set of more than MaxJob
\* keywords the model takes two of the orders.
ListHead(set, k) ==
    LET n == IF Cardinality(set) < k THEN Cardinality(set) ELSE k
    IN  IF Cardinality(set) <= MaxJob
        THEN {order \in [1..n -> set] : \A i, j \in 1..n : i # j => order[i] # order[j]}
        ELSE {Smallest(set, n), Largest(set, n)}

\* _generate_suggestions without its structure suggestions: only the two
\* format suggestions are appended.
SuggestionsFormatOnly(score, missing, top_missing) ==
    <<Literal(BandMessage(score))>>
    \o (IF missing # {} THEN <<<<MissingMessage, top_missing>>>> ELSE <<>>)
    \o [i \in 1..2 |-> Literal(FixedSuggestions[i + 3])]

\* _generate_suggestions with the keyword message appended whether or not a
\* keyword is missing.
SuggestionsAlwaysMissing(score, missing, top_missing) ==
    <<Literal(BandMessage(score))>>
    \o <<<<MissingMessage, top_missing>>>>
    \o [i \in 1..Len(FixedSuggestions) |-> Literal(FixedSuggestions[i])]

\* _generate_suggestions, top_missing being list(missing)[:5].
_generate_suggestions(score, missing, top_missing) ==
    <<Literal(BandMessage(score))>>
    \o (IF missing # {} THEN <<<<MissingMessage, top_missing>>>> ELSE <<>>)
    \o [i \in 1..Len(FixedSuggestions) |-> Literal(FixedSuggestions[i])]

\* A check that no text passes: `is None` on a str.
IsNone(text) == FALSE

\* not text
EmptyText(text) == text = <<>>

\* analyze_match as it would be if the missing-input branch cleared the
\* results of an earlier call.
AnalyzeClearingResults ==
    IF EmptyText(cv_text) \/ EmptyText(job_listing_text)
    THEN /\ analysis' = [error |-> MissingInput]
         /\ match_score' = <<0, 1>>
         /\ suggestions' = <<>>
    ELSE /\ match_score' = MatchScore(MatchingKeywords(cv_keywords, job_keywords),
                                      job_keywords)
         /\ \E top_missing \in ListHead(MissingKeywords(cv_keywords, job_keywords), 5) :
                /\ suggestions' = _generate_suggestions(match_score',
                                      MissingKeywords(cv_keywords, job_keywords),
                                      top_missing)
                /\ analysis' = [match_score |-> Round2(match_score'),
                                matching_keywords |->
                                    MatchingKeywords(cv_keywords, job_keywords),
                                missing_keywords |->
                                    MissingKeywords(cv_keywords, job_keywords),
                                suggestions |-> suggestions']

\* analyze_match.  The keyword lists of the returned dict are given as sets.
analyze_match ==
    IF EmptyText(cv_text) \/ EmptyText(job_listing_text)
    THEN /\ analysis' = [error |-> MissingInput]
         /\ UNCHANGED <<match_score, suggestions>>
    ELSE LET cv_keyword_set == cv_keywords
             job_keyword_set == job_keywords
             matching_keywords == MatchingKeywords(cv_keyword_set, job_keyword_set)
             missing_keywords == MissingKeywords(cv_keyword_set, job_keyword_set)
             score == MatchScore(matching_keywords, job_keyword_set)
         IN  /\ match_score' = score
             /\ \E top_missing \in ListHead(missing_keywords, 5) :
                    LET generated == _generate_suggestions(score, missing_keywords,
                                                           top_missing)
                    IN  /\ suggestions' = generated
                        /\ analysis' = [match_score |-> Round2(score),
                                        matching_keywords |-> matching_keywords,
                                        missing_keywords |-> missing_keywords,
                                        suggestions |-> generated]

\* A call of analyze_match on the analyzer as it is.
AnalyzeMatch ==
    /\ analyze_match
    /\ UNCHANGED <<cv_text, job_listing_text, cv_keywords, job_keywords>>
    /\ UNCHANGED callers
    /\ UNCHANGED engine
    /\ UNCHANGED app

\* Keyword sets that share `common` keywords, the job having `job` keywords in
\* all and the CV `extra` more: the job's keywords are 1..job, the CV's are
\* 1..common and the next `extra` numbers.  (analyze_match reads its keywords
\* only through set operations, so which strings they are does not matter.)
KeywordFamily(common, job, extra) ==
    [cv |-> (1..common) \cup ((job + 1)..(job + extra)), job |-> 1..job]

\* The keyword sets of SpecMatch: every family up to the bounds, and three
\* large ones whose scores lie within 0.005 of a band limit.
KeywordFamilies ==
    UNION {{KeywordFamily(common, job, extra) :
               common \in 0..job, extra \in 0..MaxExtra} : job \in 0..MaxJob}
    \cup {KeywordFamily(1402, 2003, 0), KeywordFamily(1403, 2003, 0),
          KeywordFamily(602, 2007, 0)}

\* An analyzer with both texts loaded and keyword lists of a family.
InitMatch ==
    /\ responses = NewResponses
    /\ personality_profile = NewProfile
    /\ assessment_completed = FALSE
    /\ file = <<>>
    /\ pc = <<"menu">>
    /\ input_answer = None
    /\ outcome = "fresh"
    /\ trait_scores = <<>>
    /\ cv_text = <<"c", "v">>
    /\ job_listing_text = <<"j", "o", "b">>
    /\ \E family \in KeywordFamilies :
           /\ cv_keywords = family.cv
           /\ job_keywords = family.job
    /\ match_score = <<0, 1>>
    /\ suggestions = <<>>
    /\ analysis = <<>>
    /\ NoCallers
    /\ NewApp

\* run_cv_analysis calls display_analysis, and with it analyze_match, once
\* after it has loaded the two texts.
DisplayAnalysis ==
    /\ analysis = <<>>
    /\ AnalyzeMatch

NextMatch == DisplayAnalysis

SpecMatch == InitMatch /\ [][NextMatch]_vars

-----------------------------------------------------------------------------
(* Properties of analyze_match on keyword sets.                            *)

\* The last call returned a match result, not the error dict.
Succeeded == analysis # <<>> /\ "match_score" \in DOMAIN analysis

\* The texts of the four score-banded messages.
BandMessages == {LowMatch, ModerateMatch, GoodMatch, StrongMatch}

\* How many of the leading suggestions depend on the input: the score-banded
\* message, and the keyword message when there is one.
Leading(sugg) ==
    IF Len(sugg) >= 2 /\ sugg[2][1] = MissingMessage THEN 2 ELSE 1

\* C15: a successful analyze returns matching_keywords = CV set /\ job set
\* and missing_keywords = job set - CV set; the two are disjoint and their
\* union is the job set.
C15_MatchingAndMissing ==
    Succeeded =>
        /\ \A k \in cv_keywords \cup job_keywords :
               /\ k \in analysis.matching_keywords <=> (k \in cv_keywords /\ k \in job_keywords)
               /\ k \in analysis.missing_keywords <=> (k \in job_keywords /\ k \notin cv_keywords)
        /\ analysis.matching_keywords \cup analysis.missing_keywords = job_keywords
        /\ analysis.matching_keywords \cap analysis.missing_keywords = {}

\* A result with two matching and three missing keywords, the CV holding a
\* keyword the job does not ask for.
C15_Witness ==
    /\ Succeeded
    /\ Cardinality(analysis.matching_keywords) = 2
    /\ Cardinality(analysis.missing_keywords) = 3
    /\ cv_keywords \ job_keywords # {}

\* C16: match_score is 100 * |matching_keywords| / |job set| for a non-empty
\* job set and 0 for an empty one, where analyze still returns a result (no
\* division error); the value reported is that score rounded to two
\* decimals, and both lie between 0 and 100.
C16_MatchScoreValue ==
    analysis # <<>> =>
        /\ Succeeded
        /\ LET matching == Cardinality(cv_keywords \cap job_keywords)
               job == Cardinality(job_keywords)
               reported == analysis.match_score
           IN  /\ match_score[2] > 0
               /\ job > 0 => match_score[1] * job = 100 * matching * match_score[2]
               /\ job = 0 => match_score[1] = 0 /\ reported = 0
               /\ 0 <= match_score[1] /\ match_score[1] <= 100 * match_score[2]
               /\ 0 <= reported /\ reported <= 10000
               /\ job > 0 => /\ 2 * (reported * job - 10000 * matching) <= job
                             /\ 2 * (10000 * matching - reported * job) <= job

\* analyze on an empty job keyword set and a CV that has keywords.
C16_Witness ==
    /\ Succeeded
    /\ job_keywords = {}
    /\ cv_keywords # {}
    /\ analysis.match_score = 0

\* C17: the score-banded message follows the match score by strict upper
\* bounds (below 30 low, below 50 moderate, below 70 good, otherwise strong),
\* and its band agrees with the match_score reported in the same result.
C17_BandAgreesWithReported ==
    Succeeded =>
        LET reported == analysis.match_score
            message == analysis.suggestions[1][1]
        IN  /\ message = LowMatch <=> reported < 3000
            /\ message = ModerateMatch <=> (3000 <= reported /\ reported < 5000)
            /\ message = GoodMatch <=> (5000 <= reported /\ reported < 7000)
            /\ message = StrongMatch <=> 7000 <= reported

\* C18: suggestions starts with exactly one score-banded message; a keyword
\* message follows if and only if missing_keywords is non-empty, and lists
\* min(5, |missing_keywords|) distinct keywords of missing_keywords; the fixed
\* suggestions come after these, always in the same order.
C18_SuggestionsLayout ==
    Succeeded =>
        LET sugg == analysis.suggestions
            missing == analysis.missing_keywords
            listed == sugg[2][2]
            lead == IF missing # {} THEN 2 ELSE 1
        IN  /\ suggestions = sugg
            /\ sugg[1][1] \in BandMessages /\ sugg[1][2] = <<>>
            /\ {i \in 1..Len(sugg) : sugg[i][1] \in BandMessages} = {1}
            /\ {i \in 1..Len(sugg) : sugg[i][1] = MissingMessage}
                   = (IF missing # {} THEN {2} ELSE {})
            /\ missing # {} =>
                   /\ Len(listed) = (IF Cardinality(missing) < 5
                                     THEN Cardinality(missing) ELSE 5)
                   /\ \A i \in 1..Len(listed) : listed[i] \in missing
                   /\ \A i, j \in 1..Len(listed) : i # j => listed[i] # listed[j]
            /\ SubSeq(sugg, lead + 1, Len(sugg))
                   = [i \in 1..Len(FixedSuggestions) |-> Literal(FixedSuggestions[i])]

\* Six keywords are missing and five of them are listed, not the five
\* smallest in order.
C18_Witness ==
    /\ Succeeded
    /\ Cardinality(analysis.missing_keywords) = 6
    /\ Len(analysis.suggestions[2][2]) = 5
    /\ analysis.suggestions[2][2][1] = 6
    /\ analysis.suggestions[2][2][2] = 2

\* C19, as stated: after the score-banded message and the optional keyword
\* message come six fixed literal suggestions.
C19_SixFixedSuggestions ==
    Succeeded =>
        Len(analysis.suggestions) - Leading(analysis.suggestions) = 6

\* C19, amended: after the score-banded message and the optional keyword
\* message come five fixed literal suggestions, the same five texts in the
\* same order in every result: top experiences, action verbs, tailored
\* summary, formatting, skills section.
C19_FiveFixedSuggestions ==
    Succeeded =>
        LET sugg == analysis.suggestions
            lead == Leading(sugg)
        IN  /\ Len(sugg) - lead = 5
            /\ \A i \in 1..5 : sugg[lead + i][2] = <<>>
            /\ sugg[lead + 1][1] =
                   "Ensure your CV clearly highlights your most relevant experiences at the top."
            /\ sugg[lead + 2][1] =
                   "Use action verbs and quantify achievements where possible (e.g., 'Increased sales by 25%')."
            /\ sugg[lead + 3][1] =
                   "Tailor your CV summary/objective to match the job description's key requirements."
            /\ sugg[lead + 4][1] =
                   "Make sure your CV is well-formatted, easy to read, and free of typos."
            /\ sugg[lead + 5][1] =
                   "Include a skills section that matches the job requirements."

\* A result without a keyword message: the five fixed suggestions follow the
\* score-banded message directly.
C19_Witness ==
    /\ Succeeded
    /\ analysis.missing_keywords = {}
    /\ job_keywords # {}
    /\ Len(analysis.suggestions) = 6

-----------------------------------------------------------------------------
(* Texts and keyword extraction: _clean_text and _extract_keywords.  A     *)
(* text is a sequence of one-character strings.                            *)

UpperLetters ==
    <<"A", "B", "C", "D", "E", "F", "G", "H", "I", "J", "K", "L", "M",
      "N", "O", "P", "Q", "R", "S", "T", "U", "V", "W", "X", "Y", "Z">>
LowerLetters ==
    <<"a", "b", "c", "d", "e", "f", "g", "h", "i", "j", "k", "l", "m",
      "n", "o", "p", "q", "r", "s", "t", "u", "v", "w", "x", "y", "z">>
Digits == {"0", "1", "2", "3", "4", "5", "6", "7", "8", "9"}

\* [A-Z], [a-z], \d, \s and \w on the characters of the model.
UpperSet == {UpperLetters[i] : i \in 1..Len(UpperLetters)}
LowerSet == {LowerLetters[i] : i \in 1..Len(LowerLetters)}
IsUpper(c) == c \in UpperSet
IsLower(c) == c \in LowerSet
IsDigit(c) == c \in Digits
IsSpace(c) == c \in {" ", "\t", "\n", "\r"}
IsWord(c) == IsUpper(c) \/ IsLower(c) \/ IsDigit(c) \/ c = "_"

\* str.lower() on one character and on a text.
ToLower ==
    [c \in UpperSet |->
        LowerLetters[CHOOSE i \in 1..Len(UpperLetters) : UpperLetters[i] = c]]
LowerChar(c) == IF IsUpper(c) THEN ToLower[c] ELSE c
LowerText(text) == [i \in 1..Len(text) |-> LowerChar(text[i])]

\* re.sub(r'\s+', ' ', text): every run of whitespace becomes one space.
CollapseSpaces(text) ==
    LET kept == SelectSeq([i \in 1..Len(text) |-> i],
                          LAMBDA i : ~IsSpace(text[i]) \/ i = 1 \/ ~IsSpace(text[i - 1]))
    IN  [k \in 1..Len(kept) |->
            IF IsSpace(text[kept[k]]) THEN " " ELSE text[kept[k]]]

\* _clean_text
_clean_text(text) == LowerText(CollapseSpaces(text))

\* The list common_skills.
common_skills ==
    <<
      <<"p", "y", "t", "h", "o", "n">>,
      <<"j", "a", "v", "a">>,
      <<"j", "a", "v", "a", "s", "c", "r", "i", "p", "t">>,
      <<"s", "q", "l">>,
      <<"h", "t", "m", "l">>,
      <<"c", "s", "s">>,
      <<"r", "e", "a", "c", "t">>,
      <<"a", "n", "g", "u", "l", "a", "r">>,
      <<"n", "o", "d", "e", ".", "j", "s">>,
      <<"d", "j", "a", "n", "g", "o">>,
      <<"f", "l", "a", "s", "k">>,
      <<"a", "w", "s">>,
      <<"a", "z", "u", "r", "e">>,
      <<"d", "o", "c", "k", "e", "r">>,
      <<"k", "u", "b", "e", "r", "n", "e", "t", "e", "s">>,
      <<"g", "i", "t">>,
      <<"a", "g", "i", "l", "e">>,
      <<"s", "c", "r", "u", "m">>,
      <<"p", "r", "o", "j", "e", "c", "t", " ", "m", "a", "n", "a", "g", "e", "m", "e", "n", "t">>,
      <<"l", "e", "a", "d", "e", "r", "s", "h", "i", "p">>,
      <<"c", "o", "m", "m", "u", "n", "i", "c", "a", "t", "i", "o", "n">>,
      <<"a", "n", "a", "l", "y", "t", "i", "c", "s">>,
      <<"d", "a", "t", "a", " ", "a", "n", "a", "l", "y", "s", "i", "s">>,
      <<"m", "a", "c", "h", "i", "n", "e", " ", "l", "e", "a", "r", "n", "i", "n", "g">>,
      <<"a", "i">>,
      <<"c", "l", "o", "u", "d", " ", "c", "o", "m", "p", "u", "t", "i", "n", "g">>,
      <<"d", "e", "v", "o", "p", "s">>,
      <<"c", "i", "/", "c", "d">>,
      <<"r", "e", "s", "t", " ", "a", "p", "i">>,
      <<"m", "i", "c", "r", "o", "s", "e", "r", "v", "i", "c", "e", "s">>,
      <<"d", "a", "t", "a", "b", "a", "s", "e">>,
      <<"n", "o", "s", "q", "l">>,
      <<"e", "x", "c", "e", "l">>,
      <<"p", "o", "w", "e", "r", "p", "o", "i", "n", "t">>,
      <<"p", "r", "e", "s", "e", "n", "t", "a", "t", "i", "o", "n">>,
      <<"n", "e", "g", "o", "t", "i", "a", "t", "i", "o", "n">>,
      <<"s", "a", "l", "e", "s">>,
      <<"m", "a", "r", "k", "e", "t", "i", "n", "g">>,
      <<"f", "i", "n", "a", "n", "c", "e">>,
      <<"a", "c", "c", "o", "u", "n", "t", "i", "n", "g">>,
      <<"d", "e", "s", "i", "g", "n">>,
      <<"u", "i", "/", "u", "x">>,
      <<"c", "u", "s", "t", "o", "m", "e", "r", " ", "s", "e", "r", "v", "i", "c", "e">>,
      <<"t", "e", "a", "m", "w", "o", "r", "k">>
    >>

\* skill in text_lower
Contains(text, part) ==
    \E i \in 0..(Len(text) - Len(part)) : SubSeq(text, i + 1, i + Len(part)) = part

\* text[p:].startswith(part), p counted from 1.
HasAt(text, p, part) ==
    /\ p + Len(part) - 1 <= Len(text)
    /\ SubSeq(text, p, p + Len(part) - 1) = part

\* \b between the characters at p and p + 1 (p = 0 is the start of the text).
Boundary(text, p) ==
    (p >= 1 /\ IsWord(text[p])) # (p + 1 <= Len(text) /\ IsWord(text[p + 1]))

\* [A-Z][a-z]+ can start at i.
StartsWord(text, i) ==
    /\ i + 1 <= Len(text)
    /\ IsUpper(text[i])
    /\ IsLower(text[i + 1])

\* Where [A-Z][a-z]+ started at i ends: the end of the run of lower-case
\* letters.
WordEnd(text, i) ==
    CHOOSE e \in (i + 1)..Len(text) :
        /\ \A k \in (i + 1)..e : IsLower(text[k])
        /\ e = Len(text) \/ ~IsLower(text[e + 1])

\* Where \s* started at p ends: the first position from p on that holds no
\* whitespace (Len(text) + 1 when there is none).
SkipSpaces(text, p) ==
    CHOOSE q \in p..(Len(text) + 1) :
        /\ \A k \in p..(q - 1) : IsSpace(text[k])
        /\ q = Len(text) + 1 \/ ~IsSpace(text[q])

RECURSIVE WordEnds(_, _)
\* The ends of the words that [A-Z][a-z]+(?:\s+[A-Z][a-z]+)* can take when
\* started at i: the first word, and each further capitalized word that
\* follows the one before after whitespace.
WordEnds(text, i) ==
    LET e == WordEnd(text, i)
        next == SkipSpaces(text, e + 1)
    IN  IF next > e + 1 /\ StartsWord(text, next)
        THEN {e} \cup WordEnds(text, next)
        ELSE {e}

\* Where the match of \b[A-Z][a-z]+(?:\s+[A-Z][a-z]+)*\b started at i ends, 0
\* when there is none: the repetition is greedy and gives words back until
\* the closing \b holds.
CapitalizedEnd(text, i) ==
    IF StartsWord(text, i) /\ Boundary(text, i - 1)
    THEN LET ends == {e \in WordEnds(text, i) : Boundary(text, e)}
         IN  IF ends = {} THEN 0
             ELSE CHOOSE e \in ends : \A other \in ends : other <= e
    ELSE 0

RECURSIVE CapitalizedFrom(_, _)
\* re.findall of the capitalized-terms pattern from position pos on: the
\* leftmost match, then the matches after its end.
CapitalizedFrom(text, pos) ==
    LET starts == {i \in pos..Len(text) : CapitalizedEnd(text, i) # 0}
    IN  IF starts = {} THEN {}
        ELSE LET i == CHOOSE s \in starts : \A other \in starts : s <= other
             IN  {SubSeq(text, i, CapitalizedEnd(text, i))}
                 \cup CapitalizedFrom(text, CapitalizedEnd(text, i) + 1)

\* re.findall(r'\b[A-Z][a-z]+(?:\s+[A-Z][a-z]+)*\b', text), as a set.
CapitalizedTerms(text) == CapitalizedFrom(text, 1)

\* Where \d+\+?\s*years?\s*(?:of\s*)?experience started at the first digit i
\* of a run of digits ends, 0 when it does not match.
ExperienceEnd(text, i) ==
    LET digits == CHOOSE q \in (i + 1)..(Len(text) + 1) :
                      /\ \A k \in i..(q - 1) : IsDigit(text[k])
                      /\ q = Len(text) + 1 \/ ~IsDigit(text[q])
        plus == IF HasAt(text, digits, <<"+">>) THEN digits + 1 ELSE digits
        year == SkipSpaces(text, plus)
        years == IF HasAt(text, year + 4, <<"s">>) THEN year + 5 ELSE year + 4
        of == SkipSpaces(text, years)
        experience == IF HasAt(text, of, <<"o", "f">>)
                      THEN SkipSpaces(text, of + 2) ELSE of
    IN  IF /\ HasAt(text, year, <<"y", "e", "a", "r">>)
           /\ HasAt(text, experience, <<"e", "x", "p", "e", "r", "i", "e", "n", "c", "e">>)
        THEN experience + 9
        ELSE 0

\* re.findall(r'\d+\+?\s*years?\s*(?:of\s*)?experience', text_lower), as a
\* set: a match starts at the first digit of a run of digits.
ExperiencePatterns(text) ==
    {SubSeq(text, i, ExperienceEnd(text, i)) :
        i \in {s \in 1..Len(text) :
                  /\ IsDigit(text[s])
                  /\ s = 1 \/ ~IsDigit(text[s - 1])
                  /\ ExperienceEnd(text, s) # 0}}

\* _extract_keywords: list(set(keywords)).
_extract_keywords(text) ==
    LET text_lower == LowerText(text)
        capitalized_terms == CapitalizedTerms(text)
        experience_patterns == ExperiencePatterns(text_lower)
    IN  {common_skills[k] : k \in {n \in 1..Len(common_skills) :
                                      Contains(text_lower, common_skills[n])}}
        \cup {LowerText(term) : term \in {t \in capitalized_terms : Len(t) > 3}}
        \cup experience_patterns

-----------------------------------------------------------------------------
(* load_cv and load_job_listing.  A file is its extension, whether it can  *)
(* be opened and read, its parts (the pages of a pdf, the paragraphs of a  *)
(* docx, the one content of a txt) and, for a pdf, the page whose          *)
(* extract_text() raises (0 when none does).                               *)

\* The texts a user pastes as the job listing: nothing, blanks only, one
\* capitalized word, two capitalized words.
PastedTexts ==
    {<<>>,
     <<" ", " ">>,
     <<"A", "i", "i", "i">>,
     <<"G", "i", "t", "\n", "S", "q", "l">>}

\* The contents the files are made of.
SampleTexts == {<<>>, <<"G", "i", "t">>, <<"A", "i", " ", " ", "S", "q", "l">>}
SampleParts ==
    {<<>>} \cup {<<part>> : part \in SampleTexts}
           \cup {<<<<"G", "i", "t">>, <<"A", "i", " ", " ", "S", "q", "l">>>>}

\* The files that can be read, the files that cannot be opened, and a file
\* of another format.
Files ==
    [extension : {"txt"}, readable : {TRUE},
     parts : {<<part>> : part \in SampleTexts}, raises : {0}]
    \cup [extension : {"docx"}, readable : {TRUE}, parts : SampleParts, raises : {0}]
    \cup {filepath \in [extension : {"pdf"}, readable : {TRUE},
                        parts : SampleParts, raises : 0..2] :
             filepath.raises <= Len(filepath.parts)}
    \cup [extension : {"txt", "docx", "pdf"}, readable : {FALSE},
          parts : {<<>>}, raises : {0}]
    \cup [extension : {"rtf"}, readable : {TRUE}, parts : {<<>>}, raises : {0}]

RECURSIVE PagesText(_, _)
\* The text after the first n turns of the loop over pdf_reader.pages: each
\* page followed by a newline.
PagesText(pages, n) ==
    IF n = 0 THEN <<>>
    ELSE PagesText(pages, n - 1) \o pages[n] \o <<"\n">>

RECURSIVE JoinParagraphs(_, _)
\* "\n".join of the first n paragraphs.
JoinParagraphs(paragraphs, n) ==
    IF n = 0 THEN <<>>
    ELSE IF n = 1 THEN paragraphs[1]
    ELSE JoinParagraphs(paragraphs, n - 1) \o <<"\n">> \o paragraphs[n]

\* The file has one of the three supported extensions.
Supported(filepath) == filepath.extension \in {"pdf", "docx", "txt"}

\* The file is read to its end: the text assigned before _clean_text.
ReadText(filepath) ==
    IF filepath.extension = "pdf" THEN PagesText(filepath.parts, Len(filepath.parts))
    ELSE IF filepath.extension = "docx" THEN JoinParagraphs(filepath.parts, Len(filepath.parts))
    ELSE filepath.parts[1]

\* Reading raises after the text attribute was assigned: a page of the pdf
\* fails.
RaisesMidway(filepath) == filepath.extension = "pdf" /\ filepath.raises # 0

\* The text attribute when the exception is caught.
PartialText(filepath) == PagesText(filepath.parts, filepath.raises - 1)

\* load_cv
load_cv(filepath) ==
    IF ~Supported(filepath) \/ ~filepath.readable
    THEN /\ analysis' = [loaded |-> FALSE]
         /\ UNCHANGED <<cv_text, cv_keywords>>
    ELSE IF RaisesMidway(filepath)
    THEN /\ cv_text' = PartialText(filepath)
         /\ analysis' = [loaded |-> FALSE]
         /\ UNCHANGED cv_keywords
    ELSE LET cleaned == _clean_text(ReadText(filepath))
         IN  /\ cv_text' = cleaned
             /\ cv_keywords' = _extract_keywords(cleaned)
             /\ analysis' = [loaded |-> TRUE]

\* load_job_listing(filepath=file)
load_job_listing_file(filepath) ==
    IF ~Supported(filepath) \/ ~filepath.readable
    THEN /\ analysis' = [loaded |-> FALSE]
         /\ UNCHANGED <<job_listing_text, job_keywords>>
    ELSE IF RaisesMidway(filepath)
    THEN /\ job_listing_text' = PartialText(filepath)
         /\ analysis' = [loaded |-> FALSE]
         /\ UNCHANGED job_keywords
    ELSE LET cleaned == _clean_text(ReadText(filepath))
         IN  /\ job_listing_text' = cleaned
             /\ job_keywords' = _extract_keywords(cleaned)
             /\ analysis' = [loaded |-> TRUE]

\* load_job_listing(text=text); None and "" are both <<>>.
load_job_listing_text(text) ==
    IF text = <<>>
    THEN /\ analysis' = [loaded |-> FALSE]
         /\ UNCHANGED <<job_listing_text, job_keywords>>
    ELSE LET cleaned == _clean_text(text)
         IN  /\ job_listing_text' = cleaned
             /\ job_keywords' = _extract_keywords(cleaned)
             /\ analysis' = [loaded |-> TRUE]

LoadCV(filepath) ==
    /\ load_cv(filepath)
    /\ UNCHANGED <<job_listing_text, job_keywords, match_score, suggestions>>
    /\ UNCHANGED callers
    /\ UNCHANGED engine
    /\ UNCHANGED app

LoadJobFile(filepath) ==
    /\ load_job_listing_file(filepath)
    /\ UNCHANGED <<cv_text, cv_keywords, match_score, suggestions>>
    /\ UNCHANGED callers
    /\ UNCHANGED engine
    /\ UNCHANGED app

LoadJobText(text) ==
    /\ load_job_listing_text(text)
    /\ UNCHANGED <<cv_text, cv_keywords, match_score, suggestions>>
    /\ UNCHANGED callers
    /\ UNCHANGED engine
    /\ UNCHANGED app

LoadCVFromFile == \E filepath \in Files : LoadCV(filepath)
LoadJobFromFile == \E filepath \in Files : LoadJobFile(filepath)
LoadJobFromText == \E text \in PastedTexts : LoadJobText(text)

\* One CVAnalyzer, its methods called one after the other in any order.
NextCV ==
    \/ LoadCVFromFile
    \/ LoadJobFromFile
    \/ LoadJobFromText
    \/ AnalyzeMatch

SpecCV == Init /\ [][NextCV]_vars

-----------------------------------------------------------------------------
(* Properties of the CVAnalyzer over its texts.                            *)

\* The last call was analyze_match and it returned the error dict.
Failed == analysis # <<>> /\ "error" \in DOMAIN analysis

\* C14: analyze_match returns the missing-input error exactly when the CV
\* text or the job text is not set, the empty string counting as not set, and
\* returns a result only when both texts are set: whenever the last call
\* was analyze_match, its answer is the error if one of the two texts is
\* empty and a result with a score if neither is.
C14_MissingInput ==
    /\ [](Failed => /\ analysis = [error |-> MissingInput]
                    /\ cv_text = <<>> \/ job_listing_text = <<>>)
    /\ [](Succeeded => (cv_text # <<>> /\ job_listing_text # <<>>))
    /\ [][analyze_match =>
             IF cv_text = <<>> \/ job_listing_text = <<>> THEN Failed' ELSE Succeeded']_vars

\* analyze_match returned the error on an analyzer whose job text is set and
\* whose CV was never loaded.
C14_Witness ==
    /\ Failed
    /\ job_listing_text # <<>>
    /\ job_keywords # {}
    /\ cv_text = <<>>
    /\ cv_keywords = {}

\* What the capitalized-terms step yields on the text as supplied, its
\* whitespace normalised and its case kept.
OriginalCaseTerms(text) ==
    {LowerText(term) : term \in {t \in CapitalizedTerms(CollapseSpaces(text)) : Len(t) > 3}}

\* C20: after a load that succeeds, the keywords of the loaded side hold the
\* lower-cased form of every run of capitalized words longer than 3
\* characters of the text as it was supplied.
C20_OriginalCaseTerms ==
    [][/\ \A text \in PastedTexts :
              (LoadJobText(text) /\ analysis' = [loaded |-> TRUE])
                  => OriginalCaseTerms(text) \subseteq job_keywords'
       /\ \A filepath \in Files :
              (LoadJobFile(filepath) /\ analysis' = [loaded |-> TRUE])
                  => OriginalCaseTerms(ReadText(filepath)) \subseteq job_keywords'
       /\ \A filepath \in Files :
              (LoadCV(filepath) /\ analysis' = [loaded |-> TRUE])
                  => OriginalCaseTerms(ReadText(filepath)) \subseteq cv_keywords']_vars

-----------------------------------------------------------------------------
(* The worked example: a CV and a job listing, each cut after any of its   *)
(* words, loaded and analysed.                                             *)

\* "Experienced Python developer with 5 years experience in AWS and Docker"
ExampleCV ==
    <<"E", "x", "p", "e", "r", "i", "e", "n", "c", "e", "d", " ", "P",
      "y", "t", "h", "o", "n", " ", "d", "e", "v", "e", "l", "o", "p",
      "e", "r", " ", "w", "i", "t", "h", " ", "5", " ", "y", "e", "a",
      "r", "s", " ", "e", "x", "p", "e", "r", "i", "e", "n", "c", "e",
      " ", "i", "n", " ", "A", "W", "S", " ", "a", "n", "d", " ", "D",
      "o", "c", "k", "e", "r">>

\* "Looking for a Python developer with Kubernetes and AWS experience, 3+
\* years experience required"
ExampleJob ==
    <<"L", "o", "o", "k", "i", "n", "g", " ", "f", "o", "r", " ", "a",
      " ", "P", "y", "t", "h", "o", "n", " ", "d", "e", "v", "e", "l",
      "o", "p", "e", "r", " ", "w", "i", "t", "h", " ", "K", "u", "b",
      "e", "r", "n", "e", "t", "e", "s", " ", "a", "n", "d", " ", "A",
      "W", "S", " ", "e", "x", "p", "e", "r", "i", "e", "n", "c", "e",
      ",", " ", "3", "+", " ", "y", "e", "a", "r", "s", " ", "e", "x",
      "p", "e", "r", "i", "e", "n", "c", "e", " ", "r", "e", "q", "u",
      "i", "r", "e", "d">>

\* The text cut at the end of one of its words, and the empty text.
WordPrefixes(text) ==
    {SubSeq(text, 1, n) : n \in {k \in 0..Len(text) : k = 0 \/ k = Len(text) \/ text[k + 1] = " "}}

\* The texts and keywords after load_cv and load_job_listing loaded the two
\* texts.
LoadedBoth(cv, job) ==
    /\ cv_text = _clean_text(cv)
    /\ cv_keywords = _extract_keywords(_clean_text(cv))
    /\ job_listing_text = _clean_text(job)
    /\ job_keywords = _extract_keywords(_clean_text(job))

InitExample ==
    /\ responses = NewResponses
    /\ personality_profile = NewProfile
    /\ assessment_completed = FALSE
    /\ file = <<>>
    /\ pc = <<"menu">>
    /\ input_answer = None
    /\ outcome = "fresh"
    /\ trait_scores = <<>>
    /\ \E cv \in WordPrefixes(ExampleCV), job \in WordPrefixes(ExampleJob) :
           LoadedBoth(cv, job)
    /\ match_score = <<0, 1>>
    /\ suggestions = <<>>
    /\ analysis = <<>>
    /\ NoCallers
    /\ NewApp

SpecExample == InitExample /\ [][NextMatch]_vars

\* The keywords by the extraction rules applied to the text as supplied:
\* whitespace normalised, case kept for the capitalized-terms step.
OriginalCaseKeywords(text) == _extract_keywords(CollapseSpaces(text))

\* C21: for the example CV and the example job listing analyze_match returns
\* 'python' and 'aws' among the matching keywords, 'kubernetes' among the
\* missing keywords, and as match_score 100 times the share of the job
\* keywords found in the CV, both keyword sets taken by the extraction rules
\* on the original-case texts.
C21_ExampleFixture ==
    (Succeeded /\ LoadedBoth(ExampleCV, ExampleJob)) =>
        LET cv_set == OriginalCaseKeywords(ExampleCV)
            job_set == OriginalCaseKeywords(ExampleJob)
        IN  /\ <<"p", "y", "t", "h", "o", "n">> \in analysis.matching_keywords
            /\ <<"a", "w", "s">> \in analysis.matching_keywords
            /\ <<"k", "u", "b", "e", "r", "n", "e", "t", "e", "s">> \in analysis.missing_keywords
            /\ analysis.match_score
                   = Round2(MatchScore(MatchingKeywords(cv_set, job_set), job_set))

\* C22: for a fixed job keyword set, one more CV keyword that is not in the
\* job set leaves match_score, matching_keywords and missing_keywords as they
\* are, and one more CV keyword that is in the job set never lowers
\* match_score: what analyze_match returned is compared with what it computes
\* for the CV set with the keyword added.
C22_ExtraKeywords ==
    Succeeded =>
        \A keyword \in 0..(MaxJob + MaxExtra) :
            LET more == cv_keywords \cup {keyword}
                matching == MatchingKeywords(more, job_keywords)
                missing == MissingKeywords(more, job_keywords)
                score == MatchScore(matching, job_keywords)
            IN  IF keyword \notin job_keywords
                THEN /\ score = match_score
                     /\ matching = analysis.matching_keywords
                     /\ missing = analysis.missing_keywords
                ELSE score[1] * match_score[2] >= match_score[1] * score[2]

\* analyze on a CV with a keyword of its own, one keyword of the job matched
\* and others missing: a keyword outside the job set and a missing one can
\* both be added.
C22_Witness ==
    /\ Succeeded
    /\ cv_keywords \ job_keywords # {}
    /\ 0 \notin job_keywords
    /\ Cardinality(analysis.matching_keywords) = 1
    /\ Cardinality(analysis.missing_keywords) = 2
    /\ match_score = <<100, 3>>

-----------------------------------------------------------------------------
(* Two sessions on one CVAnalyzer.  Each loads its CV and its job listing  *)
(* and calls analyze_match; a thread can be switched between any two       *)
(* statements of analyze_match.  load_cv and load_job_listing are taken as *)
(* one step each.                                                          *)

\* The .txt file each session loads as its CV.
SessionCV ==
    [thread \in Threads |->
        [extension |-> "txt", readable |-> TRUE, raises |-> 0,
         parts |-> IF thread = 1 THEN <<<<"G", "i", "t">>>>
                   ELSE <<<<"A", "i", " ", " ", "S", "q", "l">>>>]]

\* The job listing each session pastes.
SessionJob ==
    [thread \in Threads |->
        IF thread = 1 THEN <<"G", "i", "t", "\n", "S", "q", "l">>
        ELSE <<"A", "i", "i", "i">>]

\* The thread may run: without synchronization always, with it only while no
\* other session is under way.
Turn(thread) ==
    synchronized =>
        \A other \in Threads \ {thread} : threads[other].at \in {"load_cv", "done"}

\* if not self.cv_analyzer.load_cv(cv_path)
ThreadLoadCV(thread) ==
    /\ threads[thread].at = "load_cv"
    /\ load_cv(SessionCV[thread])
    /\ threads' = [threads EXCEPT ![thread].at = "load_job_listing"]
    /\ UNCHANGED <<job_listing_text, job_keywords, match_score, suggestions, synchronized>>
    /\ UNCHANGED engine
    /\ UNCHANGED app

\* if not self.cv_analyzer.load_job_listing(text=job_text)
ThreadLoadJob(thread) ==
    /\ threads[thread].at = "load_job_listing"
    /\ load_job_listing_text(SessionJob[thread])
    /\ threads' = [threads EXCEPT ![thread].at = "check"]
    /\ UNCHANGED <<cv_text, cv_keywords, match_score, suggestions, synchronized>>
    /\ UNCHANGED engine
    /\ UNCHANGED app

\* analyze_match: if not self.cv_text or not self.job_listing_text
ThreadCheck(thread) ==
    /\ threads[thread].at = "check"
    /\ IF EmptyText(cv_text) \/ EmptyText(job_listing_text)
       THEN /\ threads' = [threads EXCEPT ![thread].at = "done",
                                          ![thread].returned = [error |-> MissingInput]]
            /\ analysis' = [error |-> MissingInput]
       ELSE /\ threads' = [threads EXCEPT ![thread].at = "sets"]
            /\ UNCHANGED analysis
    /\ UNCHANGED <<cv_text, job_listing_text, cv_keywords, job_keywords, match_score,
                   suggestions, synchronized>>
    /\ UNCHANGED engine
    /\ UNCHANGED app

\* analyze_match: the two sets, their intersection and their difference.
ThreadSets(thread) ==
    /\ threads[thread].at = "sets"
    /\ threads' = [threads EXCEPT
                      ![thread].at = "score",
                      ![thread].job_keyword_set = job_keywords,
                      ![thread].matching_keywords = MatchingKeywords(cv_keywords, job_keywords),
                      ![thread].missing_keywords = MissingKeywords(cv_keywords, job_keywords)]
    /\ UNCHANGED <<cv_text, job_listing_text, cv_keywords, job_keywords, match_score,
                   suggestions, analysis, synchronized>>
    /\ UNCHANGED engine
    /\ UNCHANGED app

\* analyze_match: self.match_score = ...
ThreadScore(thread) ==
    /\ threads[thread].at = "score"
    /\ match_score' = MatchScore(threads[thread].matching_keywords,
                                 threads[thread].job_keyword_set)
    /\ threads' = [threads EXCEPT ![thread].at = "suggest"]
    /\ UNCHANGED <<cv_text, job_listing_text, cv_keywords, job_keywords, suggestions,
                   analysis, synchronized>>
    /\ UNCHANGED engine
    /\ UNCHANGED app

\* analyze_match: the call of _generate_suggestions, which reads
\* self.match_score.
ThreadSuggest(thread) ==
    /\ threads[thread].at = "suggest"
    /\ \E top_missing \in ListHead(threads[thread].missing_keywords, 5) :
           threads' = [threads EXCEPT
                          ![thread].at = "store",
                          ![thread].generated =
                              _generate_suggestions(match_score,
                                                    threads[thread].missing_keywords,
                                                    top_missing)]
    /\ UNCHANGED <<cv_text, job_listing_text, cv_keywords, job_keywords, match_score,
                   suggestions, analysis, synchronized>>
    /\ UNCHANGED engine
    /\ UNCHANGED app

\* analyze_match: self.suggestions = ...
ThreadStore(thread) ==
    /\ threads[thread].at = "store"
    /\ suggestions' = threads[thread].generated
    /\ threads' = [threads EXCEPT ![thread].at = "return"]
    /\ UNCHANGED <<cv_text, job_listing_text, cv_keywords, job_keywords, match_score,
                   analysis, synchronized>>
    /\ UNCHANGED engine
    /\ UNCHANGED app

\* analyze_match: the returned dict, built from self.match_score, the local
\* sets and self.suggestions.
ThreadReturn(thread) ==
    /\ threads[thread].at = "return"
    /\ LET result == [match_score |-> Round2(match_score),
                      matching_keywords |-> threads[thread].matching_keywords,
                      missing_keywords |-> threads[thread].missing_keywords,
                      suggestions |-> suggestions]
       IN  /\ threads' = [threads EXCEPT ![thread].at = "done",
                                         ![thread].returned = result]
           /\ analysis' = result
    /\ UNCHANGED <<cv_text, job_listing_text, cv_keywords, job_keywords, match_score,
                   suggestions, synchronized>>
    /\ UNCHANGED engine
    /\ UNCHANGED app

InitThreads ==
    /\ responses = NewResponses
    /\ personality_profile = NewProfile
    /\ assessment_completed = FALSE
    /\ file = <<>>
    /\ pc = <<"menu">>
    /\ input_answer = None
    /\ outcome = "fresh"
    /\ trait_scores = <<>>
    /\ cv_text = <<>>
    /\ job_listing_text = <<>>
    /\ cv_keywords = {}
    /\ job_keywords = {}
    /\ match_score = <<0, 1>>
    /\ suggestions = <<>>
    /\ analysis = <<>>
    /\ synchronized \in BOOLEAN
    /\ threads = [thread \in Threads |-> NewThread]
    /\ NewApp

NextThreads ==
    \E thread \in Threads :
        /\ Turn(thread)
        /\ \/ ThreadLoadCV(thread)
           \/ ThreadLoadJob(thread)
           \/ ThreadCheck(thread)
           \/ ThreadSets(thread)
           \/ ThreadScore(thread)
           \/ ThreadSuggest(thread)
           \/ ThreadStore(thread)
           \/ ThreadReturn(thread)

SpecThreads == InitThreads /\ [][NextThreads]_vars

\* The keywords of the texts the session loaded.
OwnCVKeywords(thread) == _extract_keywords(_clean_text(ReadText(SessionCV[thread])))
OwnJobKeywords(thread) == _extract_keywords(_clean_text(SessionJob[thread]))

\* The score-banded message of the result is the one of the match_score the
\* result holds.
MessageFitsScore(result) ==
    LET reported == result.match_score
        message == result.suggestions[1][1]
    IN  message = (IF reported < 3000 THEN LowMatch
                   ELSE IF reported < 5000 THEN ModerateMatch
                   ELSE IF reported < 7000 THEN GoodMatch
                   ELSE StrongMatch)

\* The keyword sets of the result are those of the texts the session loaded.
KeywordsFitTexts(thread, result) ==
    /\ result.matching_keywords = OwnCVKeywords(thread) \cap OwnJobKeywords(thread)
    /\ result.missing_keywords = OwnJobKeywords(thread) \ OwnCVKeywords(thread)

-----------------------------------------------------------------------------
(* The web session alone: the assessment column of app.py.                 *)

NextWeb ==
    \/ NextQuestion
    \/ CompleteAssessment
    \/ RetakeAssessment

SpecWeb == Init /\ [][NextWeb]_vars

\* C24: in the web session assessment_completed holds only when each of the
\* 25 catalog questions has a recorded answer and the stored profile is the
\* one calculated from these answers; once the 25th "Next Question" has
\* recorded the last answer, the script run that st.rerun() starts can do
\* one thing only, which is to complete the assessment; and "Retake
\* Assessment" leaves the session not completed and without answers.
C24_WebSession ==
    /\ [](assessment_completed =>
             /\ Len(questions) = 25
             /\ \A qi \in 1..Len(questions) : DictHas(responses, IntKey(questions[qi].id))
             /\ personality_profile = _calculate_personality_profile(responses))
    /\ [](Len(responses) < 25 => ~assessment_completed)
    /\ []((Len(responses) = 25 /\ ~assessment_completed) => NextUnanswered(responses) = <<>>)
    /\ [][(Len(responses) = 25 /\ ~assessment_completed)
              => (assessment_completed' /\ responses' = responses)]_vars
    /\ [][(assessment_completed /\ ~assessment_completed')
              => (responses' = <<>> /\ NextUnanswered(responses') = <<questions[1].id>>)]_vars

\* The session right after the script run that completed the assessment.
C24_Witness ==
    /\ outcome = "completed"
    /\ assessment_completed
    /\ Len(responses) = 25
    /\ personality_profile = _calculate_personality_profile(responses)
    /\ Len(personality_profile.top_traits) = 5

-----------------------------------------------------------------------------
(* calculate_potential_match_score (app.py).  The three lists count by     *)
(* their lengths only.  The improvement is a multiple of 0.5: the model    *)
(* keeps it, and the potential score before rounding, in halves.           *)

\* The longest list of an analysis of SpecPotential.
MaxEntries == 10

\* A list of n suggestions.
Entries(n) == [i \in 1..n |-> "entry"]

\* min(a, b)
Smaller(a, b) == IF a <= b THEN a ELSE b

\* int(round(x)) for x given in halves: a tie goes to the even neighbour.
RoundHalves(halves) ==
    IF halves % 2 = 0 THEN halves \div 2
    ELSE IF ((halves - 1) \div 2) % 2 = 0 THEN (halves - 1) \div 2
    ELSE (halves + 1) \div 2

calculate_potential_match_score(gemini_analysis) ==
    LET current_score == gemini_analysis.match_score
        missing_skills == gemini_analysis.missing_hard_skills
        cv_improvements == gemini_analysis.cv_improvements
        power_word_swaps == gemini_analysis.power_word_swaps
        improvement ==
            (IF missing_skills # <<>> THEN Smaller(Len(missing_skills) * 4, 30) ELSE 0)
            + (IF cv_improvements # <<>> THEN Smaller(Len(cv_improvements) * 3, 20) ELSE 0)
            + (IF power_word_swaps # <<>> THEN Smaller(Len(power_word_swaps), 10) ELSE 0)
        potential_score == Smaller(2 * current_score + improvement, 200)
        suggested == missing_skills # <<>> \/ cv_improvements # <<>> \/ power_word_swaps # <<>>
    IN  IF suggested /\ potential_score <= 2 * current_score
        THEN RoundHalves(Smaller(2 * current_score + 10, 200))
        ELSE RoundHalves(potential_score)

\* The analyses: an integer match_score of 0..100 and three lists.
Analyses ==
    [match_score : 0..100,
     missing_hard_skills : {Entries(n) : n \in 0..MaxEntries},
     cv_improvements : {Entries(n) : n \in 0..MaxEntries},
     power_word_swaps : {Entries(n) : n \in 0..MaxEntries}]

\* An analysis is at hand and the function was not called yet.
InitPotential ==
    /\ responses = NewResponses
    /\ personality_profile = NewProfile
    /\ assessment_completed = FALSE
    /\ file = <<>>
    /\ pc = <<"menu">>
    /\ input_answer = None
    /\ outcome = "fresh"
    /\ trait_scores = <<>>
    /\ cv_text = <<>>
    /\ job_listing_text = <<>>
    /\ cv_keywords = {}
    /\ job_keywords = {}
    /\ match_score = <<0, 1>>
    /\ suggestions = <<>>
    /\ analysis = <<>>
    /\ NoCallers
    /\ career_history = <<>>
    /\ request \in Analyses
    /\ reply = <<>>

\* potential_score = calculate_potential_match_score(gemini_analysis)
CalculatePotential ==
    /\ reply = <<>>
    /\ reply' = <<calculate_potential_match_score(request)>>
    /\ UNCHANGED <<career_history, request>>
    /\ UNCHANGED <<cv_text, job_listing_text, cv_keywords, job_keywords, match_score,
                   suggestions, analysis, callers>>
    /\ UNCHANGED engine

SpecPotential == InitPotential /\ [][CalculatePotential]_vars

\* C25: for an analysis with an integer match_score of 0..99 and at least
\* one entry in one of the three lists the potential score is strictly
\* greater than the match_score; for every analysis it is at most 100 and
\* not lower than the match_score.
C25_PotentialAboveCurrent ==
    reply # <<>> =>
        LET current == request.match_score
            suggested == \/ request.missing_hard_skills # <<>>
                         \/ request.cv_improvements # <<>>
                         \/ request.power_word_swaps # <<>>
        IN  /\ (current <= 99 /\ suggested) => reply[1] > current
            /\ reply[1] <= 100
            /\ reply[1] >= current

-----------------------------------------------------------------------------
(* The history store: save_analysis_to_supabase and                        *)
(* load_analysis_from_supabase (app.py).  A row is its id and its          *)
(* user_email column, None when the row was inserted without one.          *)

\* The most rows the table of SpecHistory holds.
MaxRows == 2

\* The email addresses of the users, and what a caller may pass as email.
Emails == {"alice@example.com", "bob@example.com"}
EmailArguments == Emails \cup {None, ""}

\* save_analysis_to_supabase: the inserted row when there is a client, the
\* table left alone when there is none.
save_analysis_to_supabase(supabase, email) ==
    IF ~supabase
    THEN /\ reply' = <<FALSE, "Supabase client not available">>
         /\ UNCHANGED career_history
    ELSE /\ career_history' =
                Append(career_history,
                       [id |-> Len(career_history) + 1,
                        user_email |-> IF Truthy(email) THEN email ELSE None])
         /\ reply' = <<TRUE, None>>

\* load_analysis_from_supabase: result.data[0] of the query, filtered by
\* user_email only `if email`.  The returned value is <<>> for None and
\* <<row>> for a row.
load_analysis_from_supabase(supabase, history_id, email) ==
    IF ~supabase THEN <<>>
    ELSE LET data == IF Truthy(email)
                     THEN SelectSeq(career_history,
                                    LAMBDA row : row.id = history_id /\ row.user_email = email)
                     ELSE SelectSeq(career_history, LAMBDA row : row.id = history_id)
         IN  IF Len(data) > 0 THEN <<data[1]>> ELSE <<>>

SaveAnalysis ==
    /\ Len(career_history) < MaxRows
    /\ \E supabase \in BOOLEAN, email \in EmailArguments :
           /\ request' = [function |-> "save_analysis_to_supabase", email |-> email]
           /\ save_analysis_to_supabase(supabase, email)
    /\ UNCHANGED <<cv_text, job_listing_text, cv_keywords, job_keywords, match_score,
                   suggestions, analysis, callers>>
    /\ UNCHANGED engine

LoadAnalysis ==
    /\ \E supabase \in BOOLEAN, history_id \in 1..MaxRows, email \in EmailArguments :
           /\ request' = [function |-> "load_analysis_from_supabase",
                          history_id |-> history_id, email |-> email]
           /\ reply' = load_analysis_from_supabase(supabase, history_id, email)
    /\ UNCHANGED career_history
    /\ UNCHANGED <<cv_text, job_listing_text, cv_keywords, job_keywords, match_score,
                   suggestions, analysis, callers>>
    /\ UNCHANGED engine

NextHistory ==
    \/ SaveAnalysis
    \/ LoadAnalysis

SpecHistory == Init /\ [][NextHistory]_vars

\* C26: load_analysis_from_supabase returns a row only to its owner: the
\* user_email of a returned row is the email the caller passed, whatever the
\* caller passed; a caller without an email (None or "") gets at most a row
\* without a user_email.
C26_OnlyOwnRecords ==
    (/\ request # <<>>
     /\ request.function = "load_analysis_from_supabase"
     /\ reply # <<>>)
        => reply[1].user_email = (IF Truthy(request.email) THEN request.email ELSE None)

\* C27: after any sequence of load_cv and load_job_listing calls, failing ones
\* included, the stored keywords of each side are the extraction of that side's
\* stored text, and a load that returns False leaves text and keywords of both
\* sides as they were.
C27_KeywordsOfStoredText ==
    /\ [](/\ cv_keywords = _extract_keywords(cv_text)
          /\ job_keywords = _extract_keywords(job_listing_text))
    /\ [][(analysis' = [loaded |-> FALSE]) =>
             /\ cv_text' = cv_text
             /\ cv_keywords' = cv_keywords
             /\ job_listing_text' = job_listing_text
             /\ job_keywords' = job_keywords]_vars

\* C30: a call of analyze_match that fails for a missing CV or job text leaves
\* cv_text, job_listing_text, both keyword lists, match_score and suggestions
\* as they were, and a call that succeeds computes its score from the stored
\* keywords alone, whatever an earlier call left behind.
C30_FailureChangesNothing ==
    /\ [][(AnalyzeMatch /\ (EmptyText(cv_text) \/ EmptyText(job_listing_text))) =>
             /\ Failed'
             /\ cv_text' = cv_text
             /\ job_listing_text' = job_listing_text
             /\ cv_keywords' = cv_keywords
             /\ job_keywords' = job_keywords
             /\ match_score' = match_score
             /\ suggestions' = suggestions]_vars
    /\ [][(AnalyzeMatch /\ ~(EmptyText(cv_text) \/ EmptyText(job_listing_text))) =>
             /\ Succeeded'
             /\ match_score' = MatchScore(MatchingKeywords(cv_keywords, job_keywords),
                                          job_keywords)
             /\ analysis'.suggestions = suggestions']_vars

\* analyze_match has failed on an analyzer that still holds the score and the
\* suggestions of an earlier successful call.
C30_Witness ==
    /\ Failed
    /\ EmptyText(cv_text)
    /\ ~EmptyText(job_listing_text)
    /\ match_score # <<0, 1>>
    /\ suggestions # <<>>

-----------------------------------------------------------------------------
(* Answers recorded in any order.                                          *)

\* self.responses[question['id']] = answer, for any of the first MaxRecorded
\* questions and whether or not it was answered before: responses is written
\* by whoever drives the engine, one question at a time.
RecordAnswer ==
    /\ \E qi \in 1..MaxRecorded, answer \in Choices :
           responses' = DictSet(responses, IntKey(questions[qi].id), answer)
    /\ outcome' = "recorded"
    /\ UNCHANGED <<personality_profile, assessment_completed, file, pc, input_answer,
                   trait_scores>>
    /\ UNCHANGED analyzer

NextOrder ==
    \/ RecordAnswer
    \/ Finalize

SpecOrder == Init /\ [][NextOrder]_vars

\* The dict that maps the same questions to the same choices as resp, its
\* keys inserted in catalog order.
CatalogOrder(resp) ==
    LET answered == SelectSeq([qi \in 1..Len(questions) |-> qi],
                              LAMBDA qi : DictHas(resp, IntKey(questions[qi].id)))
    IN  [k \in 1..Len(answered) |->
            <<IntKey(questions[answered[k]].id),
              DictGet(resp, IntKey(questions[answered[k]].id), None)>>]

\* C29: the profile that finalize produces is the profile of the final
\* question-to-choice mapping, whatever order the answers were recorded in and
\* however often a question was answered again; its raw scores are the sums
\* over the latest choices only.
C29_ProfileOfFinalResponses ==
    outcome = "finalized" =>
        /\ personality_profile = _calculate_personality_profile(CatalogOrder(responses))
        /\ \A t \in AllTraits :
               DictGet(personality_profile.raw_scores, t, 0)
                   = SumOfWeights(Chosen(responses), t, 1, Len(questions))

\* A profile finalized from answers that were recorded against catalog order.
C29_Witness ==
    /\ outcome = "finalized"
    /\ Len(responses) = 2
    /\ responses[1][1] = IntKey(questions[2].id)
    /\ responses[2][1] = IntKey(questions[1].id)
    /\ responses # CatalogOrder(responses)
    /\ personality_profile = _calculate_personality_profile(responses)
    /\ Len(personality_profile.raw_scores) >= 2

-----------------------------------------------------------------------------
(* The communication labels the catalog can produce.                       *)

\* The responses of a respondent who picks option c for every question.
EveryAnswer(c) == [qi \in 1..Len(questions) |-> <<IntKey(questions[qi].id), c>>]

\* C28: on the catalog only question 5 option c awards 'enthusiastic', with
\* weight 2, so no calculated profile has an 'enthusiastic' score above 2 and
\* none has the communication style 'enthusiastic and engaging'; each of the
\* other three labels is the style of some ResponseSet.
C28_EnthusiasticNeverFires ==
    /\ \A qi \in 1..Len(questions), c \in Choices :
           DictHas(questions[qi].traits[c], "enthusiastic")
               => /\ questions[qi].id = 5
                  /\ c = "c"
                  /\ DictGet(questions[qi].traits[c], "enthusiastic", 0) = 2
    /\ Calculated =>
           /\ DictGet(personality_profile.raw_scores, "enthusiastic", 0) <= 2
           /\ personality_profile.communication_style # "enthusiastic and engaging"
    /\ _determine_communication_style(Accumulate(EveryAnswer("a"))) = "direct and concise"
    /\ _determine_communication_style(Accumulate(EveryAnswer("d"))) = "thoughtful and measured"
    /\ _determine_communication_style(Accumulate(NewResponses)) = "detailed and thorough"

\* A profile calculated with question 5 answered c: 'enthusiastic' has its
\* largest score and the style is still not the enthusiastic one.
C28_Witness ==
    /\ Calculated
    /\ DictGet(responses, IntKey(5), None) = "c"
    /\ DictGet(personality_profile.raw_scores, "enthusiastic", 0) = 2
    /\ personality_profile.communication_style = "detailed and thorough"

=============================================================================
